---- MODULE Spec2Model ----
(***************************************************************************)
(* State-machine model of the SimpleEditor component                       *)
(* (src/components/SimpleEditor.tsx): the scene model (background,         *)
(* elements, selection), the pointer-gesture controller, the asynchronous  *)
(* image adds (file upload, paste), the background-removal request, the    *)
(* eraser (its canvas, brush and stamps) and the export (handleDownload).  *)
(*                                                                         *)
(* React semantics that the model keeps:                                   *)
(*  - a handler reads the state of the render it was created in; a handler *)
(*    bound in JSX is the current render's, a callback that runs after an  *)
(*    await / onload keeps the state of the render that started it, and    *)
(*    the paste listener (effect with an empty dependency list) keeps the  *)
(*    state of the first render for ever;                                  *)
(*  - refs (isDragging, initialElementState, ...) are shared by all        *)
(*    renders;                                                             *)
(*  - an exception thrown by a state updater unmounts the component.       *)
(* JavaScript numbers are modelled as exact rationals <<n, d>> plus NaN    *)
(* and undefined.                                                          *)
(***************************************************************************)
EXTENDS Integers, Sequences, FiniteSets, TLC

VARIABLES
    elements,             \* useState<EditorElement[]>            (line 150)
    selectedId,           \* useState<string | 'bg' | null>       (line 151)
    background,           \* useState<BackgroundState>            (line 146)
    canvasDimensions,     \* useState({width: 500, height: 500})  (line 155)
    isDragging,           \* useRef(false)                        (line 158)
    isResizing,           \* useRef(false)                        (line 159)
    isRotating,           \* useRef(false)                        (line 160)
    isCropping,           \* useState(false)                      (line 163)
    isCroppingDrag,       \* useRef<'lt'|'rt'|'lb'|'rb'|null>     (line 164)
    isProcessingRemoveBg, \* useState(false)                      (line 173)
    dragStart,            \* useRef({x: 0, y: 0})                 (line 175)
    initialElementState,  \* useRef<any>(null)                    (line 176)
    pendingImages,        \* image decodes in flight, each with the closure that started it
    pendingBackground,    \* background uploads in flight (fileToBase64 not yet resolved)
    pendingRemoveBg,      \* the background-removal request in flight, with its closure
    now,                  \* Date.now()
    moves,                \* the number of pointer-moves handled so far (bounds the run)
    history,              \* history: the moveLayer calls, or a paste and its decodes, made in
                          \* a row, and the elements array before them
    crashed,              \* an updater threw: the component is unmounted
    isErasing,            \* useState(false)                      (line 167)
    eraserCanvas,         \* the canvas of the eraser modal (eraserCanvasRef.current)
    pendingEraserLoads,   \* image loads the eraser effect started, not yet completed
    eraserBrush,          \* eraserBrushSize, eraserHardness, eraserOpacity (lines 168-170)
    eraserLastPos,        \* useRef<{x, y} | null>(null)          (line 172)
    raster,               \* the pixels of the eraser canvas: alpha and colour of each
    overlay,              \* useState({color: '#000000', opacity: 0})   (line 147)
    exports,              \* the handleDownload calls in flight, each awaiting a decode
    downloads,            \* the files handed to the user (link.click())
    alerts                \* the number of alert() dialogs shown

vars == <<elements, selectedId, background, canvasDimensions, isDragging, isResizing,
          isRotating, isCropping, isCroppingDrag, isProcessingRemoveBg, dragStart,
          initialElementState, pendingImages, pendingBackground, pendingRemoveBg,
          now, moves, history, crashed, isErasing, eraserCanvas, pendingEraserLoads,
          eraserBrush, eraserLastPos, raster, overlay, exports, downloads, alerts>>

----------------------------------------------------------------------------
(* Bounds of the model *)

MaxElements == 2
MaxPending == 2
MaxMoves == 2
PointerStep == 120
MaxStrokes == 2
MaxSteps == 5
MaxAlerts == 1
MaxExports == 2

\* as many clock values as elements: every element can have an id of its own
MaxClock == MaxElements

(* Program constants *)

BaseSize == 200
ShapeSize == 150
TextFontSize == 24
MinFontSize == 10
MinSize == 20
CropGap == 5
InitialCanvas == 500

----------------------------------------------------------------------------
(* JavaScript numbers: <<n, d>> with d > 0 in lowest terms; NaN; undefined *)

NaN == <<0, 0>>
Undefined == <<1, 0>>

IsNum(a) == a[2] > 0

Abs(n) == IF n < 0 THEN -n ELSE n

RECURSIVE GCD(_, _)
GCD(a, b) == IF b = 0 THEN a ELSE GCD(b, a % b)

Norm(n, d) ==
    IF d = 0 THEN NaN
    ELSE LET s == IF d < 0 THEN -1 ELSE 1
             g == GCD(Abs(n), Abs(d))
         IN  <<(s * n) \div g, (s * d) \div g>>

Num(n) == <<n, 1>>

NAdd(a, b) == IF IsNum(a) /\ IsNum(b) THEN Norm(a[1] * b[2] + b[1] * a[2], a[2] * b[2]) ELSE NaN
NSub(a, b) == IF IsNum(a) /\ IsNum(b) THEN Norm(a[1] * b[2] - b[1] * a[2], a[2] * b[2]) ELSE NaN
NMul(a, b) == IF IsNum(a) /\ IsNum(b) THEN Norm(a[1] * b[1], a[2] * b[2]) ELSE NaN
\* the divisor is never 0 in a reachable state (widths are >= 20 or NaN, ratios > 0)
NDiv(a, b) == IF IsNum(a) /\ IsNum(b) THEN Norm(a[1] * b[2], a[2] * b[1]) ELSE NaN
NLess(a, b) == IsNum(a) /\ IsNum(b) /\ a[1] * b[2] < b[1] * a[2]
NLeq(a, b) == IsNum(a) /\ IsNum(b) /\ a[1] * b[2] <= b[1] * a[2]
\* Math.max / Math.min: NaN when an argument is NaN
NMax(a, b) == IF IsNum(a) /\ IsNum(b) THEN (IF NLess(a, b) THEN b ELSE a) ELSE NaN
NMin(a, b) == IF IsNum(a) /\ IsNum(b) THEN (IF NLess(b, a) THEN b ELSE a) ELSE NaN

----------------------------------------------------------------------------
(* Values *)

NoneId == 0       \* selectedId === null
BgId == -1        \* selectedId === 'bg'

NoCrop == [top |-> Undefined, right |-> Undefined, bottom |-> Undefined, left |-> Undefined]
ZeroCrop == [top |-> Num(0), right |-> Num(0), bottom |-> Num(0), left |-> Num(0)]

\* the images a user can add (file or clipboard): a source and its intrinsic ratio
ImageSources == {1, 2}
Images == {[src |-> 1, ratio |-> <<1, 2>>], [src |-> 2, ratio |-> <<2, 1>>]}
\* colours: none, '#ffffff', '#3b82f6'; a colour input can set either colour
NoColor == 0
White == 1
Blue == 2
Colors == {White, Blue}
Black == 3
PointerCoords == {0, PointerStep}

DefaultBackground ==
    [type |-> "solid", color |-> White, hasImage |-> FALSE, imageSrc |-> 0,
     imageX |-> Undefined, imageY |-> Undefined, imageScale |-> Undefined,
     hasGradient |-> FALSE, direction |-> "none"]

\* the eraser modal is closed: no canvas is mounted
NoCanvas == [mounted |-> FALSE, src |-> 0, strokes |-> 0]
\* a canvas just mounted: nothing drawn on it yet
BlankCanvas == [mounted |-> TRUE, src |-> 0, strokes |-> 0]

\* the pixels of the eraser canvas the model follows, as <<x, y>>
Pixels == {<<50, 50>>, <<60, 50>>, <<59, 62>>, <<66, 66>>, <<70, 50>>, <<71, 50>>, <<95, 95>>}
\* a colour channel value of the image in the canvas
ChannelValue == 200
\* a fully opaque image, a half-transparent one (with a colour that a premultiplied
\* store reads back as it is), and a canvas nothing was drawn on
OpaqueRaster == [p \in Pixels |-> [alpha |-> 255, color |-> ChannelValue]]
HalfRaster == [p \in Pixels |-> [alpha |-> 128, color |-> ChannelValue - 1]]
BlankRaster == [p \in Pixels |-> [alpha |-> 0, color |-> 0]]
ImageRasters == {OpaqueRaster, HalfRaster}
\* brush size in pixels, hardness and opacity in percent: useState(20), (1.0), (1.0)
DefaultBrush == [size |-> 20, hardness |-> 100, opacity |-> 100]
\* eraserLastPos.current === null
NoPos == <<>>
\* the overlay: a colour and an opacity in percent
DefaultOverlay == [color |-> Black, opacity |-> 0]

\* history of the operations made in a row: none
NoHistory == [base |-> <<>>, selected |-> 0, background |-> DefaultBackground, ops |-> <<>>]

\* initialElementState.current: null, or a shallow copy ({...el}, {...background.image})
\* of which the model keeps the properties handleMouseMove reads
NullState ==
    [kind |-> "null", x |-> Undefined, y |-> Undefined, rotation |-> Undefined,
     width |-> Undefined, height |-> Undefined, aspectRatio |-> Undefined,
     fontSize |-> Undefined, scale |-> Undefined, crop |-> NoCrop]

ElementSnapshot(el) ==
    [kind |-> "object", x |-> el.x, y |-> el.y, rotation |-> el.rotation,
     width |-> el.width, height |-> el.height, aspectRatio |-> el.aspectRatio,
     fontSize |-> el.fontSize, scale |-> Undefined, crop |-> el.crop]

BackgroundSnapshot(bg) ==
    [kind |-> "object", x |-> bg.imageX, y |-> bg.imageY, rotation |-> Undefined,
     width |-> Undefined, height |-> Undefined, aspectRatio |-> Undefined,
     fontSize |-> Undefined, scale |-> bg.imageScale, crop |-> NoCrop]

\* indices of a sequence, and the pure array helpers of the code
Indices(s) == 1..Len(s)

\* elements.findIndex(e => e.id === id): first index (1-based), 0 when there is none
FindIndex(els, id) ==
    IF \E i \in Indices(els) : els[i].id = id
    THEN CHOOSE i \in Indices(els) : els[i].id = id /\ \A j \in 1..(i - 1) : els[j].id # id
    ELSE 0

\* elements.filter(t => t.id !== id)
RECURSIVE FilterOut(_, _)
FilterOut(els, id) ==
    IF els = <<>> THEN <<>>
    ELSE IF Head(els).id = id THEN FilterOut(Tail(els), id)
         ELSE <<Head(els)>> \o FilterOut(Tail(els), id)

\* newElements.splice(index, 1)
RemoveAt(els, i) == SubSeq(els, 1, i - 1) \o SubSeq(els, i + 1, Len(els))

Half(a) == NDiv(a, Num(2))

----------------------------------------------------------------------------
(* Element constructors *)

NewText(id, dims, els) ==
    [id |-> id, type |-> "text", x |-> Half(dims.width), y |-> Half(dims.height),
     rotation |-> Num(0), zIndex |-> Len(els), width |-> Undefined, height |-> Undefined,
     aspectRatio |-> Undefined, fontSize |-> Num(TextFontSize), shapeType |-> "none",
     color |-> White, crop |-> NoCrop, src |-> 0]

NewShape(id, dims, els, shapeType) ==
    [id |-> id, type |-> "shape", x |-> Half(dims.width), y |-> Half(dims.height),
     rotation |-> Num(0), zIndex |-> Len(els), width |-> Num(ShapeSize),
     height |-> Num(ShapeSize), aspectRatio |-> Undefined, fontSize |-> Undefined,
     shapeType |-> shapeType, color |-> Blue, crop |-> ZeroCrop, src |-> 0]

NewImage(id, dims, els, src, ratio) ==
    [id |-> id, type |-> "image", x |-> Half(dims.width), y |-> Half(dims.height),
     rotation |-> Num(0), zIndex |-> Len(els),
     width |-> IF NLeq(Num(1), ratio) THEN Num(BaseSize) ELSE NMul(Num(BaseSize), ratio),
     height |-> IF NLeq(Num(1), ratio) THEN NDiv(Num(BaseSize), ratio) ELSE Num(BaseSize),
     aspectRatio |-> ratio, fontSize |-> Undefined, shapeType |-> "none",
     color |-> NoColor, crop |-> ZeroCrop, src |-> src]

Init ==
    /\ elements = <<>>
    /\ selectedId = NoneId
    /\ background = DefaultBackground
    /\ canvasDimensions = [width |-> Num(InitialCanvas), height |-> Num(InitialCanvas)]
    /\ isDragging = FALSE
    /\ isResizing = FALSE
    /\ isRotating = FALSE
    /\ isCropping = FALSE
    /\ isCroppingDrag = "none"
    /\ isProcessingRemoveBg = FALSE
    /\ dragStart = [x |-> 0, y |-> 0]
    /\ initialElementState = NullState
    /\ pendingImages = <<>>
    /\ pendingBackground = <<>>
    /\ pendingRemoveBg = <<>>
    /\ now = 0
    /\ moves = 0
    /\ history = NoHistory
    /\ crashed = FALSE
    /\ isErasing = FALSE
    /\ eraserCanvas = NoCanvas
    /\ pendingEraserLoads = <<>>
    /\ eraserBrush = DefaultBrush
    /\ eraserLastPos = NoPos
    /\ raster = BlankRaster
    /\ overlay = DefaultOverlay
    /\ exports = <<>>
    /\ downloads = <<>>
    /\ alerts = 0

\* the state of the first render, which the paste listener keeps
FirstRenderElements == <<>>
FirstRenderDimensions == [width |-> Num(InitialCanvas), height |-> Num(InitialCanvas)]

gestureVars == <<isDragging, isResizing, isRotating, isCroppingDrag, dragStart,
                 initialElementState, moves>>

asyncVars == <<pendingImages, pendingBackground, pendingRemoveBg>>

stampVars == <<eraserBrush, eraserLastPos, raster>>

eraserVars == <<isErasing, eraserCanvas, pendingEraserLoads, stampVars>>

exportVars == <<overlay, exports, downloads>>

----------------------------------------------------------------------------
(* The clock: Date.now() never goes back, and returns the same value again when
   read twice within one millisecond; now is the value it returned last (0: not
   read yet) *)

DateNow(sameMs) == IF sameMs THEN now ELSE now + 1
ClockValues == 1..MaxClock

----------------------------------------------------------------------------
(* The eraser effect *)

\* the effect with dependencies [isErasing, selectedElement], after a render in which
\* selectedElement is el: when it has changed and the modal is open on an image, a
\* load of el.src is started, whose onload will redraw the canvas
EraserEffect(changed, el) ==
    IF changed /\ isErasing /\ eraserCanvas.mounted /\ el.type = "image"
    THEN Append(pendingEraserLoads, el.src)
    ELSE pendingEraserLoads

----------------------------------------------------------------------------
(* Adding elements *)

AddText(sameMs) ==
    /\ ~crashed
    /\ Len(elements) < MaxElements
    /\ DateNow(sameMs) \in ClockValues
    /\ now' = DateNow(sameMs)
    /\ elements' = Append(elements, NewText(now', canvasDimensions, elements))
    /\ selectedId' = now'
    /\ history' = NoHistory
    /\ UNCHANGED <<background, canvasDimensions, isCropping, isProcessingRemoveBg,
                   asyncVars, crashed, gestureVars>>
    /\ UNCHANGED <<eraserVars, exportVars, alerts>>

AddShape(shapeType, sameMs) ==
    /\ ~crashed
    /\ Len(elements) < MaxElements
    /\ DateNow(sameMs) \in ClockValues
    /\ now' = DateNow(sameMs)
    /\ elements' = Append(elements, NewShape(now', canvasDimensions, elements, shapeType))
    /\ selectedId' = now'
    /\ history' = NoHistory
    /\ UNCHANGED <<background, canvasDimensions, isCropping, isProcessingRemoveBg,
                   asyncVars, crashed, gestureVars>>
    /\ UNCHANGED <<eraserVars, exportVars, alerts>>

\* the closure of addImageElement: the elements and canvasDimensions of the render
\* whose handler called it
ImageRequest(els, dims, src, ratio) ==
    [els |-> els, dims |-> dims, src |-> src, ratio |-> ratio]

\* handleDecoUpload: the change handler of the current render reads the file and
\* calls its own addImageElement; the element is added when the image has loaded
HandleDecoUpload(img) ==
    /\ ~crashed
    /\ Len(pendingImages) < MaxPending
    /\ Len(elements) < MaxElements
    /\ pendingImages' = Append(pendingImages,
                               ImageRequest(elements, canvasDimensions, img.src, img.ratio))
    /\ history' = NoHistory
    /\ UNCHANGED <<elements, selectedId, background, canvasDimensions, isCropping,
                   isProcessingRemoveBg, pendingBackground, pendingRemoveBg, now,
                   crashed, gestureVars>>
    /\ UNCHANGED <<eraserVars, exportVars, alerts>>

\* handlePaste: registered once by an effect with an empty dependency list, so it
\* calls the addImageElement of the first render, for each image item in turn
RECURSIVE PasteRequests(_)
PasteRequests(items) ==
    IF items = <<>> THEN <<>>
    ELSE <<ImageRequest(FirstRenderElements, FirstRenderDimensions,
                        Head(items).src, Head(items).ratio)>>
         \o PasteRequests(Tail(items))

\* the clipboards of the model: one image, or two images
PasteItems ==
    { <<img>> : img \in Images }
    \cup { <<a, b>> : a \in {img \in Images : img.src = 1}, b \in {img \in Images : img.src = 2} }

HandlePaste(items) ==
    /\ ~crashed
    /\ Len(pendingImages) + Len(items) <= MaxPending
    /\ pendingImages' = pendingImages \o PasteRequests(items)
    /\ history' = IF pendingImages = <<>>
                  THEN [base |-> elements, selected |-> selectedId,
                        background |-> background,
                        ops |-> [k \in 1..Len(items) |-> "paste"]]
                  ELSE NoHistory
    /\ UNCHANGED <<elements, selectedId, background, canvasDimensions, isCropping,
                   isProcessingRemoveBg, pendingBackground, pendingRemoveBg, now,
                   crashed, gestureVars>>
    /\ UNCHANGED <<eraserVars, exportVars, alerts>>

\* img.onload of addImageElement, for the i-th decode in flight
ImageLoaded(i, sameMs) ==
    /\ ~crashed
    /\ i \in Indices(pendingImages)
    /\ DateNow(sameMs) \in ClockValues
    /\ now' = DateNow(sameMs)
    /\ LET req == pendingImages[i]
           newEl == NewImage(now', req.dims, req.els, req.src, req.ratio)
       IN  /\ elements' = Append(req.els, newEl)
           /\ selectedId' = newEl.id
           /\ pendingEraserLoads' = EraserEffect(TRUE, newEl)
    /\ pendingImages' = RemoveAt(pendingImages, i)
    /\ history' = IF history.ops # <<>> /\ history.ops[1] = "paste"
                  THEN [history EXCEPT !.ops = Append(@, "load")]
                  ELSE NoHistory
    /\ UNCHANGED <<background, canvasDimensions, isCropping, isProcessingRemoveBg,
                   pendingBackground, pendingRemoveBg, crashed, gestureVars>>
    /\ UNCHANGED <<isErasing, eraserCanvas, stampVars>>
    /\ UNCHANGED <<exportVars, alerts>>

----------------------------------------------------------------------------
(* Layers, deletion, property edits *)

\* the element the side panel shows: elements.find(t => t.id === selectedId)
HasSelectedElement == FindIndex(elements, selectedId) # 0
SelectedElement == elements[FindIndex(elements, selectedId)]

\* newElements[i] = newElements[i + 1]; newElements[i + 1] = el
SwapWithNext(els, i) ==
    SubSeq(els, 1, i - 1) \o <<els[i + 1], els[i]>> \o SubSeq(els, i + 2, Len(els))

\* moveLayer with the bound of 'down' off by one (index > 1 for index > 0)
MoveLayerDownOffByOne(els, id, direction) ==
    LET index == FindIndex(els, id)
    IN  IF id = NoneId \/ id = BgId \/ index = 0 THEN els
        ELSE IF direction = "up" /\ index < Len(els) THEN SwapWithNext(els, index)
        ELSE IF direction = "down" /\ index > 2 THEN SwapWithNext(els, index - 1)
        ELSE IF direction = "top" THEN Append(RemoveAt(els, index), els[index])
        ELSE IF direction = "bottom" THEN <<els[index]>> \o RemoveAt(els, index)
        ELSE els

\* the array moveLayer passes to setElements; index is 1-based here
MoveLayerElements(els, id, direction) ==
    LET index == FindIndex(els, id)
    IN  IF id = NoneId \/ id = BgId \/ index = 0 THEN els
        ELSE IF direction = "up" /\ index < Len(els) THEN SwapWithNext(els, index)
        ELSE IF direction = "down" /\ index > 1 THEN SwapWithNext(els, index - 1)
        ELSE IF direction = "top" THEN Append(RemoveAt(els, index), els[index])
        ELSE IF direction = "bottom" THEN <<els[index]>> \o RemoveAt(els, index)
        ELSE els

Directions == {"up", "down", "top", "bottom"}

MoveLayer(direction) ==
    /\ ~crashed
    /\ HasSelectedElement
    /\ elements' = MoveLayerElements(elements, selectedId, direction)
    /\ history' =
         IF Len(history.ops) = 1 /\ history.ops[1] \in Directions
         THEN [history EXCEPT !.ops = Append(@, direction)]
         ELSE [base |-> elements, selected |-> selectedId, background |-> background,
               ops |-> <<direction>>]
    /\ UNCHANGED <<selectedId, background, canvasDimensions, isCropping,
                   isProcessingRemoveBg, asyncVars, now, crashed, gestureVars>>
    /\ UNCHANGED <<eraserVars, exportVars, alerts>>

\* the delete button is in the element panel, and in the background panel when the
\* background is an image
DeleteSelected ==
    /\ ~crashed
    /\ \/ HasSelectedElement
       \/ (selectedId \in {BgId, NoneId} /\ background.type = "image")
    /\ IF selectedId = BgId
       THEN /\ background' = DefaultBackground
            /\ selectedId' = NoneId
            /\ UNCHANGED <<elements, isCropping>>
       ELSE /\ elements' = FilterOut(elements, selectedId)
            /\ selectedId' = NoneId
            /\ isCropping' = FALSE
            /\ UNCHANGED background
    /\ history' = NoHistory
    /\ UNCHANGED <<canvasDimensions, isProcessingRemoveBg, asyncVars, now, crashed,
                   gestureVars>>
    /\ UNCHANGED <<eraserVars, exportVars, alerts>>

\* { ...el, [key]: value } for the keys of the model
SetKey(el, key, value) ==
    IF key = "src" THEN [el EXCEPT !.src = value]
    ELSE IF key = "color" THEN [el EXCEPT !.color = value]
    ELSE el

\* the array updateElement passes to setElements, from the elements and selectedId
\* of the render that created the function
RECURSIVE MapSetKey(_, _, _, _)
MapSetKey(els, id, key, value) ==
    IF els = <<>> THEN <<>>
    ELSE <<IF Head(els).id = id THEN SetKey(Head(els), key, value) ELSE Head(els)>>
         \o MapSetKey(Tail(els), id, key, value)

UpdateElementElements(els, id, key, value) ==
    IF id = NoneId \/ id = BgId THEN els ELSE MapSetKey(els, id, key, value)

\* a colour input of the side panel (text and shape)
UpdateColor(value) ==
    /\ ~crashed
    /\ HasSelectedElement
    /\ SelectedElement.type \in {"text", "shape"}
    /\ elements' = UpdateElementElements(elements, selectedId, "color", value)
    /\ history' = NoHistory
    /\ UNCHANGED <<selectedId, background, canvasDimensions, isCropping,
                   isProcessingRemoveBg, asyncVars, now, crashed, gestureVars>>
    /\ UNCHANGED <<eraserVars, exportVars, alerts>>

----------------------------------------------------------------------------
(* Pointer gestures *)

\* the crop button is in the image tools of the side panel
StartCropping ==
    /\ ~crashed
    /\ HasSelectedElement
    /\ SelectedElement.type = "image"
    /\ isCropping' = TRUE
    /\ history' = NoHistory
    /\ UNCHANGED <<elements, selectedId, background, canvasDimensions,
                   isProcessingRemoveBg, asyncVars, now, crashed, gestureVars>>
    /\ UNCHANGED <<eraserVars, exportVars, alerts>>

Handles == {"lt", "rt", "lb", "rb"}
GestureTypes == {"move", "resize", "rotate", "crop"}

\* what the live view binds handleMouseDown to: every element (move), the rotate and
\* resize handles of a selected element outside crop mode, the four crop handles of
\* the selected element in crop mode, and the background image (move)
Pressable(id, type) ==
    \/ /\ id = BgId
       /\ type = "move"
       /\ background.type = "image"
       /\ background.hasImage
    \/ /\ \E i \in Indices(elements) : elements[i].id = id
       /\ \/ type = "move"
          \/ type \in {"rotate", "resize"} /\ selectedId = id /\ ~isCropping
          \/ type = "crop" /\ selectedId = id /\ isCropping

HandleMouseDown(id, type, cropHandle, px, py) ==
    /\ ~crashed
    /\ ~isErasing
    /\ Pressable(id, type)
    /\ history' = NoHistory
    /\ IF isCropping /\ id # selectedId
       THEN /\ isCropping' = FALSE
            /\ UNCHANGED <<selectedId, isDragging, isResizing, isRotating,
                           isCroppingDrag, dragStart, initialElementState>>
       ELSE /\ selectedId' = id
            /\ dragStart' = [x |-> px, y |-> py]
            /\ initialElementState' =
                 IF id = BgId
                 THEN (IF background.type = "image" /\ background.hasImage
                       THEN BackgroundSnapshot(background)
                       ELSE initialElementState)
                 ELSE ElementSnapshot(elements[FindIndex(elements, id)])
            /\ isCroppingDrag' = IF type = "crop" THEN cropHandle ELSE isCroppingDrag
            /\ isDragging' = IF type = "move" THEN TRUE ELSE isDragging
            /\ isResizing' = IF type = "resize" THEN TRUE ELSE isResizing
            /\ isRotating' = IF type = "rotate" THEN TRUE ELSE isRotating
            /\ UNCHANGED isCropping
    /\ UNCHANGED <<elements, background, canvasDimensions, isProcessingRemoveBg,
                   asyncVars, now, crashed, moves>>
    /\ UNCHANGED <<eraserVars, exportVars, alerts>>

\* a press on the canvas that no element stopped
HandleCanvasClick ==
    /\ ~crashed
    /\ ~isErasing
    /\ selectedId' = NoneId
    /\ isCropping' = FALSE
    /\ history' = NoHistory
    /\ UNCHANGED <<elements, background, canvasDimensions, isProcessingRemoveBg,
                   asyncVars, now, crashed, gestureVars>>
    /\ UNCHANGED <<eraserVars, exportVars, alerts>>

\* a pointer-up that would clear the drag, resize and rotate flags and the snapshot but
\* leave the crop handle of the gesture set
HandleMouseUpKeepingCropHandle ==
    /\ ~crashed
    /\ isDragging' = FALSE
    /\ isResizing' = FALSE
    /\ isRotating' = FALSE
    /\ initialElementState' = NullState
    /\ UNCHANGED <<elements, selectedId, background, canvasDimensions, isCropping,
                   isProcessingRemoveBg, asyncVars, now, crashed, dragStart, moves,
                   history, isCroppingDrag>>
    /\ eraserLastPos' = NoPos
    /\ UNCHANGED <<isErasing, eraserCanvas, pendingEraserLoads, eraserBrush, raster>>
    /\ UNCHANGED <<exportVars, alerts>>

\* handleMouseUp: the flags and the snapshot are cleared
HandleMouseUp ==
    /\ ~crashed
    /\ isDragging' = FALSE
    /\ isResizing' = FALSE
    /\ isRotating' = FALSE
    /\ isCroppingDrag' = "none"
    /\ initialElementState' = NullState
    /\ UNCHANGED <<elements, selectedId, background, canvasDimensions, isCropping,
                   isProcessingRemoveBg, asyncVars, now, crashed, dragStart, moves,
                   history>>
    /\ eraserLastPos' = NoPos
    /\ UNCHANGED <<isErasing, eraserCanvas, pendingEraserLoads, eraserBrush, raster>>
    /\ UNCHANGED <<exportVars, alerts>>

\* Math.min(Math.max(0, value), 100 - opposite - 5)
ClampCrop(value, opposite) ==
    NMin(NMax(Num(0), value), NSub(NSub(Num(100), opposite), Num(CropGap)))

\* a crop branch that would add the delta to the crop of the previous frame instead of
\* the crop of the snapshot
CropMoveFromCurrent(el, snap, handle, dx, dy) ==
    LET currentCrop == IF el.crop = NoCrop THEN ZeroCrop ELSE el.crop
        initialW == IF el.type \in {"shape", "image"} THEN el.width ELSE Num(100)
        initialH == IF el.type \in {"shape", "image"} THEN el.height ELSE Num(100)
        percentX == NMul(NDiv(dx, initialW), Num(100))
        percentY == NMul(NDiv(dy, initialH), Num(100))
        left == ClampCrop(NAdd(currentCrop.left, percentX), currentCrop.right)
        right == ClampCrop(NSub(currentCrop.right, percentX), currentCrop.left)
        top == ClampCrop(NAdd(currentCrop.top, percentY), currentCrop.bottom)
        bottom == ClampCrop(NSub(currentCrop.bottom, percentY), currentCrop.top)
        newCrop ==
            IF handle = "lt" THEN [currentCrop EXCEPT !.left = left, !.top = top]
            ELSE IF handle = "rt" THEN [currentCrop EXCEPT !.right = right, !.top = top]
            ELSE IF handle = "lb" THEN [currentCrop EXCEPT !.left = left, !.bottom = bottom]
            ELSE IF handle = "rb" THEN [currentCrop EXCEPT !.right = right, !.bottom = bottom]
            ELSE currentCrop
    IN  [el EXCEPT !.crop = newCrop]

\* the crop branch of the updater, for an element whose id is the selected one
CropMove(el, snap, handle, dx, dy) ==
    LET currentCrop == IF el.crop = NoCrop THEN ZeroCrop ELSE el.crop
        initialW == IF el.type \in {"shape", "image"} THEN el.width ELSE Num(100)
        initialH == IF el.type \in {"shape", "image"} THEN el.height ELSE Num(100)
        percentX == NMul(NDiv(dx, initialW), Num(100))
        percentY == NMul(NDiv(dy, initialH), Num(100))
        left == ClampCrop(NAdd(snap.crop.left, percentX), currentCrop.right)
        right == ClampCrop(NSub(snap.crop.right, percentX), currentCrop.left)
        top == ClampCrop(NAdd(snap.crop.top, percentY), currentCrop.bottom)
        bottom == ClampCrop(NSub(snap.crop.bottom, percentY), currentCrop.top)
        newCrop ==
            IF handle = "lt" THEN [currentCrop EXCEPT !.left = left, !.top = top]
            ELSE IF handle = "rt" THEN [currentCrop EXCEPT !.right = right, !.top = top]
            ELSE IF handle = "lb" THEN [currentCrop EXCEPT !.left = left, !.bottom = bottom]
            ELSE IF handle = "rb" THEN [currentCrop EXCEPT !.right = right, !.bottom = bottom]
            ELSE currentCrop
    IN  [el EXCEPT !.crop = newCrop]

\* the resize branch of the updater
ResizeMove(el, snap, delta) ==
    IF el.type = "text"
    THEN [el EXCEPT !.fontSize =
              NMax(Num(MinFontSize), NAdd(snap.fontSize, NMul(delta, <<1, 2>>)))]
    ELSE IF el.type = "image"
    THEN LET newWidth == NMax(Num(MinSize), NAdd(snap.width, delta))
         IN  [el EXCEPT !.width = newWidth, !.height = NDiv(newWidth, snap.aspectRatio)]
    ELSE [el EXCEPT !.width = NMax(Num(MinSize), NAdd(snap.width, delta)),
                    !.height = NMax(Num(MinSize), NAdd(snap.height, delta))]

\* what the updater of handleMouseMove returns for an element whose id is the
\* selected one: crop, else drag, else resize, else rotate
MoveElement(el, snap, crop, drag, resize, rotate, dx, dy) ==
    IF crop # "none" THEN CropMove(el, snap, crop, dx, dy)
    ELSE IF drag THEN [el EXCEPT !.x = NAdd(snap.x, dx), !.y = NAdd(snap.y, dy)]
    ELSE IF resize THEN ResizeMove(el, snap, dx)
    ELSE IF rotate THEN [el EXCEPT !.rotation = NAdd(snap.rotation, NMul(dx, <<1, 2>>))]
    ELSE el

\* reading a property of null, or of the undefined crop of the snapshot, throws
MoveThrows(snap, crop) ==
    \/ snap.kind = "null"
    \/ crop # "none" /\ snap.crop = NoCrop

RECURSIVE MapMove(_, _, _, _, _, _, _, _, _)
MapMove(els, id, snap, crop, drag, resize, rotate, dx, dy) ==
    IF els = <<>> THEN <<>>
    ELSE <<IF Head(els).id = id
           THEN MoveElement(Head(els), snap, crop, drag, resize, rotate, dx, dy)
           ELSE Head(els)>>
         \o MapMove(Tail(els), id, snap, crop, drag, resize, rotate, dx, dy)

\* the background branch: pan when dragging, else zoom when resizing
MoveBackground(bg, snap, drag, resize, dx, dy) ==
    IF drag THEN [bg EXCEPT !.imageX = NAdd(snap.x, dx), !.imageY = NAdd(snap.y, dy)]
    ELSE IF resize
    THEN [bg EXCEPT !.imageScale = NMax(<<1, 10>>, NAdd(snap.scale, NMul(dx, <<1, 200>>)))]
    ELSE bg

GestureActive == isDragging \/ isResizing \/ isRotating \/ isCroppingDrag # "none"

HandleMouseMove(px, py) ==
    /\ ~crashed
    /\ moves < MaxMoves
    /\ moves' = moves + 1
    /\ GestureActive
    /\ selectedId # NoneId
    /\ LET dx == Num(px - dragStart.x)
           dy == Num(py - dragStart.y)
           snap == initialElementState
       IN  IF selectedId = BgId /\ background.type = "image" /\ background.hasImage
           THEN IF (isDragging \/ isResizing) /\ snap.kind = "null"
                THEN /\ crashed' = TRUE
                     /\ UNCHANGED <<elements, background>>
                ELSE /\ background' = MoveBackground(background, snap, isDragging,
                                                     isResizing, dx, dy)
                     /\ UNCHANGED <<elements, crashed>>
           ELSE IF HasSelectedElement /\ MoveThrows(snap, isCroppingDrag)
                THEN /\ crashed' = TRUE
                     /\ UNCHANGED <<elements, background>>
                ELSE /\ elements' = MapMove(elements, selectedId, snap, isCroppingDrag,
                                            isDragging, isResizing, isRotating, dx, dy)
                     /\ UNCHANGED <<background, crashed>>
    /\ history' = NoHistory
    /\ UNCHANGED <<selectedId, canvasDimensions, isCropping, isProcessingRemoveBg,
                   asyncVars, now, isDragging, isResizing, isRotating, isCroppingDrag,
                   dragStart, initialElementState>>
    /\ UNCHANGED <<eraserVars, exportVars, alerts>>

\* handleMouseMove when it returns at once: no gesture flag is set, or nothing is
\* selected (the event is counted, nothing else changes)
HandleMouseMoveIgnored(px, py) ==
    /\ ~crashed
    /\ moves < MaxMoves
    /\ moves' = moves + 1
    /\ ~GestureActive \/ selectedId = NoneId
    /\ UNCHANGED <<elements, selectedId, background, canvasDimensions, isCropping,
                   isProcessingRemoveBg, asyncVars, now, crashed, isDragging, isResizing,
                   isRotating, isCroppingDrag, dragStart, initialElementState, history>>
    /\ UNCHANGED <<eraserVars, exportVars, alerts>>

----------------------------------------------------------------------------
(* Background *)

\* handleBackgroundUpload: the file is read (await fileToBase64) ...
HandleBackgroundUpload(src) ==
    /\ ~crashed
    /\ Len(pendingBackground) < MaxPending
    /\ pendingBackground' = Append(pendingBackground, src)
    /\ history' = NoHistory
    /\ UNCHANGED <<elements, selectedId, background, canvasDimensions, isCropping,
                   isProcessingRemoveBg, pendingImages, pendingRemoveBg, now, crashed,
                   gestureVars>>
    /\ UNCHANGED <<eraserVars, exportVars, alerts>>

\* ... and then the background becomes that image, at the default pan and scale
BackgroundLoaded(i) ==
    /\ ~crashed
    /\ i \in Indices(pendingBackground)
    /\ background' = [type |-> "image", color |-> NoColor, hasImage |-> TRUE,
                      imageSrc |-> pendingBackground[i], imageX |-> Num(0),
                      imageY |-> Num(0), imageScale |-> Num(1),
                      hasGradient |-> FALSE, direction |-> "none"]
    /\ selectedId' = BgId
    /\ pendingBackground' = RemoveAt(pendingBackground, i)
    /\ history' = NoHistory
    /\ UNCHANGED <<elements, canvasDimensions, isCropping, isProcessingRemoveBg,
                   pendingImages, pendingRemoveBg, now, crashed, gestureVars>>
    /\ UNCHANGED <<eraserVars, exportVars, alerts>>

\* the background panel is shown when the background or nothing is selected
BackgroundPanelShown == selectedId \in {BgId, NoneId}

\* the "solid" button: setBackground(prev => ({ ...prev, type: 'solid' }))
SolidButton(bg) == [bg EXCEPT !.type = "solid"]

\* the "gradient" button: { ...prev, type: 'gradient', gradient: {linear, 'to right', ...} }
GradientButton(bg) == [bg EXCEPT !.type = "gradient", !.hasGradient = TRUE,
                                 !.direction = "to right"]

\* the colour input of the solid panel: setBackground({ type: 'solid', color })
SolidColorInput(color) ==
    [type |-> "solid", color |-> color, hasImage |-> FALSE, imageSrc |-> 0,
     imageX |-> Undefined, imageY |-> Undefined, imageScale |-> Undefined,
     hasGradient |-> FALSE, direction |-> "none"]

GradientDirections == {"to right", "to left", "to bottom", "to top", "45deg"}

SelectSolid ==
    /\ ~crashed
    /\ BackgroundPanelShown
    /\ background' = SolidButton(background)
    /\ history' = NoHistory
    /\ UNCHANGED <<elements, selectedId, canvasDimensions, isCropping,
                   isProcessingRemoveBg, asyncVars, now, crashed, gestureVars>>
    /\ UNCHANGED <<eraserVars, exportVars, alerts>>

SelectGradient ==
    /\ ~crashed
    /\ BackgroundPanelShown
    /\ background' = GradientButton(background)
    /\ history' = NoHistory
    /\ UNCHANGED <<elements, selectedId, canvasDimensions, isCropping,
                   isProcessingRemoveBg, asyncVars, now, crashed, gestureVars>>
    /\ UNCHANGED <<eraserVars, exportVars, alerts>>

SetSolidColor(color) ==
    /\ ~crashed
    /\ BackgroundPanelShown
    /\ background.type = "solid"
    /\ background' = SolidColorInput(color)
    /\ history' = NoHistory
    /\ UNCHANGED <<elements, selectedId, canvasDimensions, isCropping,
                   isProcessingRemoveBg, asyncVars, now, crashed, gestureVars>>
    /\ UNCHANGED <<eraserVars, exportVars, alerts>>

SetGradientDirection(direction) ==
    /\ ~crashed
    /\ BackgroundPanelShown
    /\ background.type = "gradient"
    /\ background.hasGradient
    /\ background' = [background EXCEPT !.direction = direction]
    /\ history' = NoHistory
    /\ UNCHANGED <<elements, selectedId, canvasDimensions, isCropping,
                   isProcessingRemoveBg, asyncVars, now, crashed, gestureVars>>
    /\ UNCHANGED <<eraserVars, exportVars, alerts>>

\* the zoom slider of the image panel
ZoomValues == {<<1, 2>>, <<2, 1>>}

SetBackgroundScale(scale) ==
    /\ ~crashed
    /\ BackgroundPanelShown
    /\ background.type = "image"
    /\ background.hasImage
    /\ background' = [background EXCEPT !.imageScale = scale]
    /\ history' = NoHistory
    /\ UNCHANGED <<elements, selectedId, canvasDimensions, isCropping,
                   isProcessingRemoveBg, asyncVars, now, crashed, gestureVars>>
    /\ UNCHANGED <<eraserVars, exportVars, alerts>>

----------------------------------------------------------------------------
(* Background removal *)

\* the image the service and removeWhiteBackground return for a source
RemovedBackgroundSrc(src) == src + 10

\* handleRemoveBackground up to its first await: the request keeps the elements and
\* selectedId of the render whose button was clicked
HandleRemoveBackground ==
    /\ ~crashed
    /\ HasSelectedElement
    /\ SelectedElement.type = "image"
    /\ SelectedElement.src \in ImageSources
    /\ ~isProcessingRemoveBg
    /\ pendingRemoveBg = <<>>
    /\ isProcessingRemoveBg' = TRUE
    /\ pendingRemoveBg' = <<[els |-> elements, selectedId |-> selectedId,
                             src |-> SelectedElement.src]>>
    /\ history' = NoHistory
    /\ UNCHANGED <<elements, selectedId, background, canvasDimensions, isCropping,
                   pendingImages, pendingBackground, now, crashed, gestureVars>>
    /\ UNCHANGED <<eraserVars, exportVars, alerts>>

\* a completion that on failure would write back the elements the request started from
RemoveBackgroundDoneRestoring(ok) ==
    /\ ~crashed
    /\ pendingRemoveBg # <<>>
    /\ ok \/ alerts < MaxAlerts
    /\ alerts' = IF ok THEN alerts ELSE alerts + 1
    /\ LET req == pendingRemoveBg[1]
       IN  elements' = IF ok
                       THEN UpdateElementElements(req.els, req.selectedId, "src",
                                                  RemovedBackgroundSrc(req.src))
                       ELSE req.els
    /\ LET index == FindIndex(elements', selectedId)
       IN  pendingEraserLoads' =
               IF index = 0 THEN pendingEraserLoads
               ELSE EraserEffect(ok /\ (selectedId = pendingRemoveBg[1].selectedId
                                        \/ FindIndex(elements, selectedId) = 0
                                        \/ elements'[index] # SelectedElement),
                                 elements'[index])
    /\ isProcessingRemoveBg' = FALSE
    /\ pendingRemoveBg' = <<>>
    /\ history' = NoHistory
    /\ UNCHANGED <<selectedId, background, canvasDimensions, isCropping, pendingImages,
                   pendingBackground, now, crashed, gestureVars>>
    /\ UNCHANGED <<isErasing, eraserCanvas, stampVars>>
    /\ UNCHANGED exportVars

\* the rest of handleRemoveBackground: on success updateElement('src', ...) of that
\* render, on failure the alert; finally the processing flag is cleared
RemoveBackgroundDone(ok) ==
    /\ ~crashed
    /\ pendingRemoveBg # <<>>
    /\ ok \/ alerts < MaxAlerts
    /\ alerts' = IF ok THEN alerts ELSE alerts + 1
    /\ LET req == pendingRemoveBg[1]
       IN  elements' = IF ok
                       THEN UpdateElementElements(req.els, req.selectedId, "src",
                                                  RemovedBackgroundSrc(req.src))
                       ELSE elements
    /\ LET index == FindIndex(elements', selectedId)
       IN  pendingEraserLoads' =
               IF index = 0 THEN pendingEraserLoads
               ELSE EraserEffect(ok /\ (selectedId = pendingRemoveBg[1].selectedId
                                        \/ FindIndex(elements, selectedId) = 0
                                        \/ elements'[index] # SelectedElement),
                                 elements'[index])
    /\ isProcessingRemoveBg' = FALSE
    /\ pendingRemoveBg' = <<>>
    /\ history' = NoHistory
    /\ UNCHANGED <<selectedId, background, canvasDimensions, isCropping, pendingImages,
                   pendingBackground, now, crashed, gestureVars>>
    /\ UNCHANGED <<isErasing, eraserCanvas, stampVars>>
    /\ UNCHANGED exportVars

\* the service returned bytes the browser cannot decode: tempImg fires its error event,
\* which has no handler, so the promise the handler awaits never settles: neither the
\* catch nor the finally of this request will run
RemoveBackgroundUndecodable ==
    /\ ~crashed
    /\ pendingRemoveBg # <<>>
    /\ pendingRemoveBg' = <<>>
    /\ history' = NoHistory
    /\ UNCHANGED <<elements, selectedId, background, canvasDimensions, isCropping,
                   isProcessingRemoveBg, pendingImages, pendingBackground, now, crashed,
                   gestureVars>>
    /\ UNCHANGED <<eraserVars, exportVars, alerts>>

\* the request in flight gets its outcome: the service call succeeds and the image
\* decodes, the call fails, or the bytes returned do not decode
RemoveBackgroundOutcome ==
    \/ \E ok \in BOOLEAN : RemoveBackgroundDone(ok)
    \/ RemoveBackgroundUndecodable

----------------------------------------------------------------------------
(* Canvas size *)

\* the widths the container of the canvas can take (aspect ratio '1:1')
ContainerWidths == {InitialCanvas, InitialCanvas + 100}

\* updateSize, on a window resize: width = height = containerRef.current.offsetWidth
UpdateSize(containerWidth) ==
    /\ ~crashed
    /\ canvasDimensions' = [width |-> Num(containerWidth), height |-> Num(containerWidth)]
    /\ history' = NoHistory
    /\ UNCHANGED <<elements, selectedId, background, isCropping, isProcessingRemoveBg,
                   asyncVars, now, crashed, gestureVars>>
    /\ UNCHANGED <<eraserVars, exportVars, alerts>>

----------------------------------------------------------------------------
(* The eraser *)

\* canvas.toDataURL('image/png'): the raster of the source the canvas was drawn from
\* with the strokes made since; BlankSrc for a canvas nothing was drawn on
BlankSrc == 99
EraserDataURL(canvas) ==
    IF canvas.src = 0 THEN BlankSrc ELSE 100 * canvas.src + canvas.strokes

\* the brush settings of the sliders used here, and the points of the canvas
\* (in canvas pixels) the pointer is pressed or moved at
BrushSizes == {10, 20}
BrushPercents == {50, 100}
EraserPoints == {<<50, 50>>, <<55, 50>>}

\* the sliders of the modal
SetEraserBrushSize(size) ==
    /\ ~crashed
    /\ isErasing
    /\ eraserBrush' = [eraserBrush EXCEPT !.size = size]
    /\ UNCHANGED <<elements, selectedId, background, canvasDimensions, isCropping,
                   isProcessingRemoveBg, asyncVars, now, crashed, gestureVars, history,
                   isErasing, eraserCanvas, pendingEraserLoads, eraserLastPos, raster>>
    /\ UNCHANGED <<exportVars, alerts>>

SetEraserHardness(percent) ==
    /\ ~crashed
    /\ isErasing
    /\ eraserBrush' = [eraserBrush EXCEPT !.hardness = percent]
    /\ UNCHANGED <<elements, selectedId, background, canvasDimensions, isCropping,
                   isProcessingRemoveBg, asyncVars, now, crashed, gestureVars, history,
                   isErasing, eraserCanvas, pendingEraserLoads, eraserLastPos, raster>>
    /\ UNCHANGED <<exportVars, alerts>>

SetEraserOpacity(percent) ==
    /\ ~crashed
    /\ isErasing
    /\ eraserBrush' = [eraserBrush EXCEPT !.opacity = percent]
    /\ UNCHANGED <<elements, selectedId, background, canvasDimensions, isCropping,
                   isProcessingRemoveBg, asyncVars, now, crashed, gestureVars, history,
                   isErasing, eraserCanvas, pendingEraserLoads, eraserLastPos, raster>>
    /\ UNCHANGED <<exportVars, alerts>>

\* startErasing (the eraser button is in the image tools), the render that mounts the
\* modal's canvas, and the effect that starts loading the selected image
StartErasing ==
    /\ ~crashed
    /\ ~isErasing
    /\ HasSelectedElement
    /\ SelectedElement.type = "image"
    /\ SelectedElement.src \in ImageSources
    /\ isErasing' = TRUE
    /\ eraserCanvas' = BlankCanvas
    /\ raster' = BlankRaster
    /\ eraserLastPos' = NoPos
    /\ pendingEraserLoads' = <<SelectedElement.src>>
    /\ history' = [base |-> elements, selected |-> selectedId, background |-> background,
                   ops |-> <<"erase">>]
    /\ UNCHANGED <<elements, selectedId, background, canvasDimensions, isCropping,
                   isProcessingRemoveBg, asyncVars, now, crashed, gestureVars, eraserBrush>>
    /\ UNCHANGED <<exportVars, alerts>>

\* img.onload of the effect: canvas.width = img.width (which clears the canvas), then
\* ctx.drawImage(img, 0, 0); image is the pixels of the decoded image
EraserImageLoaded(i, image) ==
    /\ ~crashed
    /\ i \in Indices(pendingEraserLoads)
    /\ eraserCanvas' = [mounted |-> TRUE, src |-> pendingEraserLoads[i], strokes |-> 0]
    /\ raster' = image
    /\ pendingEraserLoads' = RemoveAt(pendingEraserLoads, i)
    /\ UNCHANGED <<elements, selectedId, background, canvasDimensions, isCropping,
                   isProcessingRemoveBg, asyncVars, now, crashed, gestureVars,
                   isErasing, history, eraserBrush, eraserLastPos>>
    /\ UNCHANGED <<exportVars, alerts>>

\* the square of the distance between two points with rational coordinates
Dist2(p, q) ==
    NAdd(NMul(NSub(p[1], q[1]), NSub(p[1], q[1])), NMul(NSub(p[2], q[2]), NSub(p[2], q[2])))

Point(p) == <<Num(p[1]), Num(p[2])>>

\* Math.ceil(dist / (eraserBrushSize * 0.2)) for dist = Math.hypot(..): the least n with
\* n * size / 5 >= dist
Steps(d2, size) ==
    CHOOSE n \in 0..MaxSteps :
        /\ 25 * d2[1] <= n * n * size * size * d2[2]
        /\ n > 0 => (n - 1) * (n - 1) * size * size * d2[2] < 25 * d2[1]

\* the centres of the stamps of one pointer event: the interpolated points from the last
\* position (i = 0 .. steps - 1), then the point of the event
Centers(last, cur, size) ==
    IF last = NoPos THEN <<Point(cur)>>
    ELSE LET from == Point(last)
             to == Point(cur)
             steps == Steps(Dist2(from, to), size)
         IN  [i \in 1..steps |->
                 LET t == Norm(i - 1, steps)
                 IN  <<NAdd(from[1], NMul(NSub(to[1], from[1]), t)),
                       NAdd(from[2], NMul(NSub(to[2], from[2]), t))>>] \o <<to>>

\* the distance for a squared distance below size * size, in tenths of a pixel
\* (rounded down)
Root10(d2, size) ==
    CHOOSE k \in 0..(10 * size) :
        /\ k * k * d2[2] <= 100 * d2[1]
        /\ 100 * d2[1] < (k + 1) * (k + 1) * d2[2]

\* ctx.arc(pX, pY, eraserBrushSize, 0, 2 * PI): the pixels the fill covers; whether a
\* pixel whose centre is on the circle is covered is left to the rasterizer (onEdge)
Covered(d2, size, onEdge) ==
    \/ NLess(d2, Num(size * size))
    \/ onEdge /\ d2 = Num(size * size)

\* the alpha of the radial gradient at a covered pixel: eraserOpacity from the centre
\* to eraserHardness * size, then linearly down to 0 at size
GradientAlpha(d2, brush) ==
    LET opacity == Norm(brush.opacity, 100)
        inner == Norm(brush.hardness * brush.size, 100)
    IN  IF NLeq(d2, NMul(inner, inner)) THEN opacity
        ELSE LET d == Norm(Root10(d2, brush.size), 10)
             IN  NMul(opacity, NDiv(NSub(Num(brush.size), d),
                                    NSub(Num(brush.size), inner)))

\* the nearest integer to a rational that is not negative
Round(q) == (2 * q[1] + q[2]) \div (2 * q[2])

\* the default globalCompositeOperation, 'source-over', on one pixel: the black of the
\* gradient is painted over it
SourceOver(pixel, sourceAlpha, premultiplied) ==
    LET alpha == Round(NAdd(NMul(Num(255), sourceAlpha),
                            NMul(Num(pixel.alpha), NSub(Num(1), sourceAlpha))))
    IN  [alpha |-> alpha, color |-> 0]

\* globalCompositeOperation = 'destination-out' on one pixel: the alpha is multiplied by
\* 1 - the alpha of the source. A backing store that keeps 8-bit colours as they are
\* keeps the colour; a premultiplied one keeps colour * alpha / 255 in 8 bits, scales
\* it as the alpha, and reads the colour back by the division (0 when the alpha is 0)
DestinationOut(pixel, sourceAlpha, premultiplied) ==
    LET keep == NSub(Num(1), sourceAlpha)
        alpha == Round(NMul(Num(pixel.alpha), keep))
        stored == Round(Norm(pixel.color * pixel.alpha, 255))
        scaled == Round(NMul(Num(stored), keep))
        readBack == IF alpha = 0 THEN 0 ELSE Round(Norm(scaled * 255, alpha))
    IN  [alpha |-> alpha,
         color |-> IF ~premultiplied THEN pixel.color
                   ELSE IF readBack > 255 THEN 255 ELSE readBack]

\* drawPoint(pX, pY)
DrawPoint(pixels, center, brush, onEdge, premultiplied) ==
    [p \in Pixels |->
        LET d2 == Dist2(Point(p), center)
        IN  IF Covered(d2, brush.size, onEdge)
            THEN DestinationOut(pixels[p], GradientAlpha(d2, brush), premultiplied)
            ELSE pixels[p]]

RECURSIVE DrawPoints(_, _, _, _, _)
DrawPoints(pixels, centers, brush, onEdge, premultiplied) ==
    IF centers = <<>> THEN pixels
    ELSE DrawPoints(DrawPoint(pixels, Head(centers), brush, onEdge, premultiplied),
                    Tail(centers), brush, onEdge, premultiplied)

\* handleEraserDraw (mouse down or mouse move over the canvas) with the button held:
\* the stamps of one pointer event at the point cur
HandleEraserDraw(cur, onEdge, premultiplied) ==
    /\ ~crashed
    /\ isErasing
    /\ eraserCanvas.mounted
    /\ eraserCanvas.strokes < MaxStrokes
    /\ eraserCanvas' = [eraserCanvas EXCEPT !.strokes = @ + 1]
    /\ raster' = DrawPoints(raster, Centers(eraserLastPos, cur, eraserBrush.size),
                            eraserBrush, onEdge, premultiplied)
    /\ eraserLastPos' = cur
    /\ history' = IF history.ops # <<>> /\ history.ops[1] = "erase"
                  THEN [history EXCEPT !.ops = Append(@, "draw")]
                  ELSE NoHistory
    /\ UNCHANGED <<elements, selectedId, background, canvasDimensions, isCropping,
                   isProcessingRemoveBg, asyncVars, now, crashed, gestureVars,
                   isErasing, pendingEraserLoads, eraserBrush>>
    /\ UNCHANGED <<exportVars, alerts>>

\* onMouseLeave of the canvas
EraserMouseLeave ==
    /\ ~crashed
    /\ isErasing
    /\ eraserCanvas.mounted
    /\ eraserLastPos' = NoPos
    /\ UNCHANGED <<elements, selectedId, background, canvasDimensions, isCropping,
                   isProcessingRemoveBg, asyncVars, now, crashed, gestureVars, history,
                   isErasing, eraserCanvas, pendingEraserLoads, eraserBrush, raster>>
    /\ UNCHANGED <<exportVars, alerts>>

\* saveEraserResult: updateElement('src', canvas.toDataURL()) of the current render,
\* then the modal closes and its canvas is unmounted
SaveEraserResult ==
    /\ ~crashed
    /\ isErasing
    /\ elements' = IF eraserCanvas.mounted
                   THEN UpdateElementElements(elements, selectedId, "src",
                                              EraserDataURL(eraserCanvas))
                   ELSE elements
    /\ isErasing' = FALSE
    /\ eraserCanvas' = NoCanvas
    /\ raster' = BlankRaster
    /\ pendingEraserLoads' = <<>>
    /\ history' = NoHistory
    /\ UNCHANGED <<selectedId, background, canvasDimensions, isCropping,
                   isProcessingRemoveBg, asyncVars, now, crashed, gestureVars,
                   eraserBrush, eraserLastPos>>
    /\ UNCHANGED <<exportVars, alerts>>

\* a close button that would write the canvas back as the save button does
CloseEraserSaving ==
    /\ ~crashed
    /\ isErasing
    /\ elements' = UpdateElementElements(elements, selectedId, "src",
                                         EraserDataURL(eraserCanvas))
    /\ isErasing' = FALSE
    /\ eraserCanvas' = NoCanvas
    /\ raster' = BlankRaster
    /\ pendingEraserLoads' = <<>>
    /\ history' = IF history.ops # <<>> /\ history.ops[1] = "erase"
                  THEN [history EXCEPT !.ops = Append(@, "close")]
                  ELSE NoHistory
    /\ UNCHANGED <<selectedId, background, canvasDimensions, isCropping,
                   isProcessingRemoveBg, asyncVars, now, crashed, gestureVars,
                   eraserBrush, eraserLastPos>>
    /\ UNCHANGED <<exportVars, alerts>>

\* the close button of the modal: setIsErasing(false)
CloseEraser ==
    /\ ~crashed
    /\ isErasing
    /\ isErasing' = FALSE
    /\ eraserCanvas' = NoCanvas
    /\ raster' = BlankRaster
    /\ pendingEraserLoads' = <<>>
    /\ history' = IF history.ops # <<>> /\ history.ops[1] = "erase"
                  THEN [history EXCEPT !.ops = Append(@, "close")]
                  ELSE NoHistory
    /\ UNCHANGED <<elements, selectedId, background, canvasDimensions, isCropping,
                   isProcessingRemoveBg, asyncVars, now, crashed, gestureVars,
                   eraserBrush, eraserLastPos>>
    /\ UNCHANGED <<exportVars, alerts>>

----------------------------------------------------------------------------
(* The overlay and the export *)

\* the opacities (in percent) the slider of the overlay is set to here
OverlayOpacities == {0, 50}

\* the colour input and the slider of the overlay
SetOverlayColor(color) ==
    /\ ~crashed
    /\ overlay' = [overlay EXCEPT !.color = color]
    /\ history' = NoHistory
    /\ UNCHANGED <<elements, selectedId, background, canvasDimensions, isCropping,
                   isProcessingRemoveBg, asyncVars, now, crashed, gestureVars>>
    /\ UNCHANGED <<eraserVars, exports, downloads, alerts>>

SetOverlayOpacity(percent) ==
    /\ ~crashed
    /\ overlay' = [overlay EXCEPT !.opacity = percent]
    /\ history' = NoHistory
    /\ UNCHANGED <<elements, selectedId, background, canvasDimensions, isCropping,
                   isProcessingRemoveBg, asyncVars, now, crashed, gestureVars>>
    /\ UNCHANGED <<eraserVars, exports, downloads, alerts>>

\* the drawing state of the export's 2d context that the code changes and saves: the
\* transform (the translate-and-rotate calls applied to the identity, in order), the
\* clip (the rectangles ctx.clip() has intersected, in order), and the stack of
\* ctx.save()
IdentityTransform == <<>>
NoClip == <<>>
NewContext == [transform |-> IdentityTransform, clip |-> NoClip, stack |-> <<>>]

Save(ctx) ==
    [ctx EXCEPT !.stack = Append(@, [transform |-> ctx.transform, clip |-> ctx.clip])]

\* ctx.restore(): nothing happens when the stack is empty
Restore(ctx) ==
    IF ctx.stack = <<>> THEN ctx
    ELSE LET top == ctx.stack[Len(ctx.stack)]
         IN  [transform |-> top.transform, clip |-> top.clip,
              stack |-> SubSeq(ctx.stack, 1, Len(ctx.stack) - 1)]

\* ctx.translate(el.x, el.y); ctx.rotate(el.rotation * PI / 180)
Placement(el) == [x |-> el.x, y |-> el.y, rotation |-> el.rotation]
Place(ctx, el) == [ctx EXCEPT !.transform = Append(@, Placement(el))]

\* a draw operation: what is drawn (item 0 is the background, -1 the overlay, k the
\* k-th element), with which paint, and under which transform and clip
DrawOp(op, item, paint, ctx) ==
    [op |-> op, item |-> item, paint |-> paint, transform |-> ctx.transform,
     clip |-> ctx.clip]

\* direction.includes(word), for the directions of the select and the words the
\* exporter looks for
Includes(direction, word) ==
    <<direction, word>> \in {<<"to right", "right">>, <<"to bottom", "bottom">>}

\* a gradient over the canvas, by the corners that get its first colour (start) and
\* the corners that get its last colour (end)
Corners == {"tl", "tr", "bl", "br"}

\* the gradient the exporter creates for a direction: createLinearGradient(0, 0, w, 0),
\* (0, 0, 0, h), a radial one around the centre, or (0, 0, w, h)
ExportGradient(direction) ==
    IF Includes(direction, "right") THEN [start |-> {"tl", "bl"}, end |-> {"tr", "br"}]
    ELSE IF Includes(direction, "bottom") THEN [start |-> {"tl", "tr"}, end |-> {"bl", "br"}]
    ELSE IF Includes(direction, "radial") THEN [start |-> {}, end |-> Corners]
    ELSE [start |-> {"tl"}, end |-> {"br"}]

\* the gradient the live view shows for a direction: the browser's
\* linear-gradient(direction, colors[0], colors[1]) over the canvas; 45deg points to
\* the top right corner
LiveGradient(direction) ==
    IF direction = "to right" THEN [start |-> {"tl", "bl"}, end |-> {"tr", "br"}]
    ELSE IF direction = "to left" THEN [start |-> {"tr", "br"}, end |-> {"tl", "bl"}]
    ELSE IF direction = "to bottom" THEN [start |-> {"tl", "tr"}, end |-> {"bl", "br"}]
    ELSE IF direction = "to top" THEN [start |-> {"bl", "br"}, end |-> {"tl", "tr"}]
    ELSE [start |-> {"bl"}, end |-> {"tr"}]

\* the background of render(), up to the await of the image variant
BackgroundOps(bg, ctx) ==
    IF bg.type = "solid"
    THEN <<DrawOp("fillRect", 0, [color |-> IF bg.color = NoColor THEN White ELSE bg.color],
                  ctx)>>
    ELSE IF bg.type = "gradient" /\ bg.hasGradient
    THEN <<DrawOp("fillRect", 0, [gradient |-> ExportGradient(bg.direction)], ctx)>>
    ELSE IF bg.type = "image" /\ bg.hasImage
    THEN <<DrawOp("fillRect", 0, [color |-> White], ctx)>>
    ELSE <<>>

\* ctx.drawImage of the decoded background image
BackgroundImageOps(bg, ctx) ==
    <<DrawOp("drawImage", 0,
             [src |-> bg.imageSrc, x |-> bg.imageX, y |-> bg.imageY, scale |-> bg.imageScale],
             ctx)>>

\* an overlay that would be filled whatever its opacity
OverlayOpsAlways(ov, ctx) ==
    <<DrawOp("fillRect", -1, [color |-> ov.color, opacity |-> ov.opacity], ctx)>>

\* the overlay of render()
OverlayOps(ov, ctx) ==
    IF ov.opacity > 0
    THEN <<DrawOp("fillRect", -1, [color |-> ov.color, opacity |-> ov.opacity], ctx)>>
    ELSE <<>>

\* the text and the shape branches of a renderer that would outline the selected
\* element, as the live view does
ElementOpsOutlined(el, k, ctx) ==
    IF el.type = "text"
    THEN <<DrawOp("fillText", k, [color |-> el.color, fontSize |-> el.fontSize,
                                   outlined |-> el.id = selectedId], ctx)>>
    ELSE IF el.type = "shape"
    THEN <<DrawOp("fill", k, [color |-> el.color, shapeType |-> el.shapeType,
                               width |-> el.width, height |-> el.height,
                               outlined |-> el.id = selectedId], ctx)>>
    ELSE <<>>

\* the text and the shape branches of the loop, between ctx.save() and ctx.restore()
ElementOps(el, k, ctx) ==
    IF el.type = "text"
    THEN <<DrawOp("fillText", k, [color |-> el.color, fontSize |-> el.fontSize], ctx)>>
    ELSE IF el.type = "shape"
    THEN <<DrawOp("fill", k, [color |-> el.color, shapeType |-> el.shapeType,
                               width |-> el.width, height |-> el.height], ctx)>>
    ELSE <<>>

\* the rectangle of ctx.roundRect(drawX, drawY, visibleW, visibleH, radius) of the
\* image branch, in the coordinates of the placed element (the origin is its centre)
ExportClip(el) ==
    LET crop == IF el.crop = NoCrop THEN ZeroCrop ELSE el.crop
        cropL == NMul(el.width, NDiv(crop.left, Num(100)))
        cropT == NMul(el.height, NDiv(crop.top, Num(100)))
        cropR == NMul(el.width, NDiv(crop.right, Num(100)))
        cropB == NMul(el.height, NDiv(crop.bottom, Num(100)))
    IN  [x |-> NAdd(NDiv(NSub(Num(0), el.width), Num(2)), cropL),
         y |-> NAdd(NDiv(NSub(Num(0), el.height), Num(2)), cropT),
         width |-> NSub(NSub(el.width, cropL), cropR),
         height |-> NSub(NSub(el.height, cropT), cropB)]

\* the rectangle the live view clips an image or a shape to, in the same coordinates:
\* clip-path: inset(top% right% bottom% left%) of the box of the element, which
\* translate(-50%, -50%) centres on its position
LiveClip(el) ==
    LET crop == IF el.crop = NoCrop THEN ZeroCrop ELSE el.crop
        Percent(q, of) == NDiv(NMul(of, q), Num(100))
        left == NAdd(NDiv(NSub(Num(0), el.width), Num(2)), Percent(crop.left, el.width))
        top == NAdd(NDiv(NSub(Num(0), el.height), Num(2)), Percent(crop.top, el.height))
        right == NSub(NDiv(el.width, Num(2)), Percent(crop.right, el.width))
        bottom == NSub(NDiv(el.height, Num(2)), Percent(crop.bottom, el.height))
    IN  [x |-> left, y |-> top, width |-> NSub(right, left), height |-> NSub(bottom, top)]

\* the image branch after a successful decode: roundRect, ctx.save(), ctx.clip(),
\* ctx.drawImage, ctx.restore()
ImageOps(el, k, ctx) ==
    LET clipped == [Save(ctx) EXCEPT !.clip = Append(@, ExportClip(el))]
    IN  <<DrawOp("drawImage", k, [src |-> el.src, width |-> el.width,
                                   height |-> el.height, crop |-> el.crop], clipped)>>

\* the loop over the elements from the k-th on, up to the next await (an image element,
\* after ctx.save(), translate and rotate) or to the end of the loop
RECURSIVE RenderElements(_, _)
RenderElements(e, k) ==
    IF k > Len(e.elements) THEN [e EXCEPT !.next = k]
    ELSE LET el == e.elements[k]
             placed == Place(Save(e.ctx), el)
         IN  IF el.type = "image" THEN [e EXCEPT !.next = k, !.ctx = placed]
             ELSE RenderElements([e EXCEPT !.ops = @ \o ElementOps(el, k, placed),
                                           !.ctx = Restore(placed)], k + 1)

\* render() once the background is done: the overlay, then the loop
RenderAfterBackground(e) ==
    RenderElements([e EXCEPT !.ops = @ \o OverlayOps(e.overlay, e.ctx)], 1)

\* a render() that would not wait for the background image: it goes on with the overlay
\* and the elements while the decode is under way
RenderStartDrawingAhead(e) ==
    LET drawn == [e EXCEPT !.ops = BackgroundOps(e.background, e.ctx)]
    IN  IF e.background.type = "image" /\ e.background.hasImage
        THEN [RenderAfterBackground(drawn) EXCEPT !.next = 0]
        ELSE RenderAfterBackground(drawn)

\* render() up to its first await
RenderStart(e) ==
    LET drawn == [e EXCEPT !.ops = BackgroundOps(e.background, e.ctx)]
    IN  IF e.background.type = "image" /\ e.background.hasImage
        THEN [drawn EXCEPT !.next = 0]
        ELSE RenderAfterBackground(drawn)

\* a render() whose ctx.restore() would be inside the try, after the drawing
RenderResumeInsideTry(e, ok) ==
    LET seen == [e EXCEPT !.outcomes = Append(@, ok)]
    IN  IF e.next = 0
        THEN RenderAfterBackground(
                 [seen EXCEPT !.ops = IF ok THEN @ \o BackgroundImageOps(e.background, e.ctx)
                                      ELSE @])
        ELSE RenderElements(
                 [seen EXCEPT !.ops = IF ok
                                      THEN @ \o ImageOps(e.elements[e.next], e.next, e.ctx)
                                      ELSE @,
                              !.ctx = IF ok THEN Restore(e.ctx) ELSE e.ctx], e.next + 1)

\* render() from the await it is at, whose decode succeeded (ok) or failed: the catch
\* of a failed decode logs the error and the code after the try goes on
RenderResume(e, ok) ==
    LET seen == [e EXCEPT !.outcomes = Append(@, ok)]
    IN  IF e.next = 0
        THEN RenderAfterBackground(
                 [seen EXCEPT !.ops = IF ok THEN @ \o BackgroundImageOps(e.background, e.ctx)
                                      ELSE @])
        ELSE RenderElements(
                 [seen EXCEPT !.ops = IF ok
                                      THEN @ \o ImageOps(e.elements[e.next], e.next, e.ctx)
                                      ELSE @,
                              !.ctx = Restore(e.ctx)], e.next + 1)

\* render() has left its loop
Finished(e) == e.next > Len(e.elements)

\* link.download = `design-${Date.now()}.png`; link.href = canvas.toDataURL(); the
\* file keeps, as history, the state the export was started in
Download(e, time) ==
    [name |-> time, width |-> e.width, height |-> e.height, ops |-> e.ops, ctx |-> e.ctx,
     background |-> e.background, overlay |-> e.overlay, elements |-> e.elements,
     outcomes |-> e.outcomes, started |-> e.started]

\* handleDownload: a new canvas of the size of canvasDimensions, and render() up to its
\* first await, or to the file when it awaits nothing
HandleDownload(sameMs) ==
    /\ ~crashed
    /\ ~isErasing
    /\ Len(exports) + Len(downloads) < MaxExports
    /\ LET e == RenderStart(
                    [width |-> canvasDimensions.width, height |-> canvasDimensions.height,
                     background |-> background, overlay |-> overlay, elements |-> elements,
                     next |-> 0, ctx |-> NewContext, ops |-> <<>>, outcomes |-> <<>>,
                     started |-> [now |-> now, selectedId |-> selectedId,
                                  isCropping |-> isCropping, isDragging |-> isDragging]])
       IN  IF Finished(e)
           THEN /\ downloads' = Append(downloads, Download(e, DateNow(sameMs)))
                /\ now' = DateNow(sameMs)
                /\ UNCHANGED exports
           ELSE /\ exports' = Append(exports, e)
                /\ UNCHANGED <<downloads, now>>
    /\ history' = NoHistory
    /\ UNCHANGED <<elements, selectedId, background, canvasDimensions, isCropping,
                   isProcessingRemoveBg, asyncVars, crashed, gestureVars>>
    /\ UNCHANGED <<eraserVars, overlay, alerts>>

\* the decode an export awaits completes (img.onload, ok) or fails (img.onerror)
ExportDecoded(i, ok, sameMs) ==
    /\ ~crashed
    /\ i \in Indices(exports)
    /\ LET e == RenderResume(exports[i], ok)
       IN  IF Finished(e)
           THEN /\ downloads' = Append(downloads, Download(e, DateNow(sameMs)))
                /\ now' = DateNow(sameMs)
                /\ exports' = RemoveAt(exports, i)
           ELSE /\ exports' = [exports EXCEPT ![i] = e]
                /\ UNCHANGED <<downloads, now>>
    /\ history' = NoHistory
    /\ UNCHANGED <<elements, selectedId, background, canvasDimensions, isCropping,
                   isProcessingRemoveBg, asyncVars, crashed, gestureVars>>
    /\ UNCHANGED <<eraserVars, overlay, alerts>>

----------------------------------------------------------------------------
(* The specifications *)

\* Spec: the element array and the selection. Synchronous adds, a pasted image whose
\* decode completes later, reordering, deletion, selecting by a press on an element.
LayersNext ==
    \/ \E sameMs \in BOOLEAN : AddText(sameMs)
    \/ \E sameMs \in BOOLEAN : AddShape("rectangle", sameMs)
    \/ \E img \in Images : pendingImages = <<>> /\ HandlePaste(<<img>>)
    \/ \E sameMs \in BOOLEAN : ImageLoaded(1, sameMs)
    \/ \E direction \in Directions : MoveLayer(direction)
    \/ DeleteSelected
    \/ \E id \in 1..MaxClock : HandleMouseDown(id, "move", "lt", 0, 0)
    \/ HandleCanvasClick
    \/ HandleMouseUp

Spec == Init /\ [][LayersNext]_vars

\* SpecAsync: adds whose completion is asynchronous. Uploaded and pasted images decode
\* while the user goes on adding and deleting; a background removal is in flight
\* while the user deletes.
AsyncNext ==
    \/ \E img \in Images : HandleDecoUpload(img)
    \/ \E sameMs \in BOOLEAN : AddText(sameMs)
    \/ \E items \in PasteItems : HandlePaste(items)
    \/ \E i \in 1..MaxPending, sameMs \in BOOLEAN : ImageLoaded(i, sameMs)
    \/ DeleteSelected
    \/ \E color \in Colors : UpdateColor(color)
    \/ HandleRemoveBackground
    \/ \E ok \in BOOLEAN : RemoveBackgroundDone(ok)

SpecAsync == Init /\ [][AsyncNext]_vars

\* SpecGesture: pointer gestures (move, resize, rotate, crop) on elements, while
\* elements are added and deleted, an uploaded image finishes decoding and crop mode
\* is toggled.
\* One gesture at a time, pressed at the origin; ids are distinct.
GestureNext ==
    \/ AddText(FALSE)
    \/ AddShape("rectangle", FALSE)
    \/ \E img \in Images : pendingImages = <<>> /\ HandleDecoUpload(img)
    \/ ImageLoaded(1, FALSE)
    \/ StartCropping
    \/ DeleteSelected
    \/ \E id \in 1..MaxClock, type \in GestureTypes, cropHandle \in Handles :
          ~GestureActive /\ HandleMouseDown(id, type, cropHandle, 0, 0)
    \/ \E p \in PointerCoords : HandleMouseMove(p, p)
    \/ HandleMouseUp
    \/ HandleCanvasClick

SpecGesture == Init /\ [][GestureNext]_vars

\* SpecBackground: the background. Uploads that resolve later, the variant buttons and
\* inputs of the background panel, pan by dragging the image, zoom, deletion.
BackgroundNext ==
    \/ \E src \in ImageSources : HandleBackgroundUpload(src)
    \/ \E i \in 1..MaxPending : BackgroundLoaded(i)
    \/ SelectSolid
    \/ SelectGradient
    \/ \E color \in Colors : SetSolidColor(color)
    \/ \E direction \in GradientDirections : SetGradientDirection(direction)
    \/ \E scale \in ZoomValues : SetBackgroundScale(scale)
    \/ DeleteSelected
    \/ ~GestureActive /\ HandleMouseDown(BgId, "move", "lt", 0, 0)
    \/ \E px \in PointerCoords, py \in PointerCoords : HandleMouseMove(px, py)
    \/ HandleMouseUp
    \/ HandleCanvasClick

SpecBackground == Init /\ [][BackgroundNext]_vars

\* SpecPlacement: where a new element is put. Adds of every kind while the window,
\* and so the canvas, is resized.
PlacementNext ==
    \/ \E containerWidth \in ContainerWidths : UpdateSize(containerWidth)
    \/ \E sameMs \in BOOLEAN : AddText(sameMs)
    \/ \E sameMs \in BOOLEAN : AddShape("rectangle", sameMs)
    \/ \E img \in Images : HandleDecoUpload(img)
    \/ \E items \in PasteItems : HandlePaste(items)
    \/ \E i \in 1..MaxPending, sameMs \in BOOLEAN : ImageLoaded(i, sameMs)
    \/ DeleteSelected

SpecPlacement == Init /\ [][PlacementNext]_vars

\* SpecEraser: the eraser modal. While it is open its overlay covers the editor, so
\* only the modal's controls, the paste listener and asynchronous completions act.
EraserNext ==
    \/ \E img \in Images : ~isErasing /\ pendingImages = <<>> /\ HandleDecoUpload(img)
    \/ \E img \in Images : pendingImages = <<>> /\ HandlePaste(<<img>>)
    \/ ImageLoaded(1, FALSE)
    \/ ~isErasing /\ HandleRemoveBackground
    \/ RemoveBackgroundDone(TRUE)
    \/ StartErasing
    \/ \E i \in 1..MaxPending : EraserImageLoaded(i, OpaqueRaster)
    \/ HandleEraserDraw(<<50, 50>>, FALSE, FALSE)
    \/ SaveEraserResult
    \/ CloseEraser

SpecEraser == Init /\ [][EraserNext]_vars

\* SpecStamp: the brush. One image is added and opened in the eraser; the sliders are
\* set, then come presses and moves of the pointer over the canvas, and the pointer
\* leaving the canvas between them.
StampNext ==
    \/ pendingImages = <<>> /\ elements = <<>> /\ HandleDecoUpload([src |-> 1, ratio |-> <<1, 2>>])
    \/ ImageLoaded(1, FALSE)
    \/ StartErasing
    \/ \E image \in ImageRasters : EraserImageLoaded(1, image)
    \/ \E size \in BrushSizes : eraserCanvas.strokes = 0 /\ SetEraserBrushSize(size)
    \/ \E percent \in BrushPercents : eraserCanvas.strokes = 0 /\ SetEraserHardness(percent)
    \/ \E percent \in BrushPercents : eraserCanvas.strokes = 0 /\ SetEraserOpacity(percent)
    \/ \E cur \in EraserPoints : \E onEdge, premultiplied \in BOOLEAN :
           HandleEraserDraw(cur, onEdge, premultiplied)
    \/ EraserMouseLeave
    \/ CloseEraser

SpecStamp == Init /\ [][StampNext]_vars

\* SpecExport: the export. First a scene is made of an image, a text or a shape over a
\* solid or an image background, with or without the overlay; then come exports, one
\* after the other, whose decodes succeed or fail, with selecting, crop mode and a drag
\* between them.
NoExport == exports = <<>> /\ downloads = <<>>
BetweenExports == exports = <<>> /\ downloads # <<>>

ExportNext ==
    \/ NoExport /\ AddText(FALSE)
    \/ NoExport /\ AddShape("circle", FALSE)
    \/ NoExport /\ pendingImages = <<>> /\ HandleDecoUpload([src |-> 1, ratio |-> <<1, 2>>])
    \/ NoExport /\ ImageLoaded(1, FALSE)
    \/ NoExport /\ pendingBackground = <<>> /\ HandleBackgroundUpload(2)
    \/ NoExport /\ BackgroundLoaded(1)
    \/ \E percent \in OverlayOpacities : NoExport /\ SetOverlayOpacity(percent)
    \/ NoExport /\ overlay.opacity > 0 /\ SetOverlayColor(Blue)
    \/ BetweenExports /\ StartCropping
    \/ \E id \in ClockValues :
           BetweenExports /\ ~GestureActive /\ HandleMouseDown(id, "move", "lt", 0, 0)
    \/ BetweenExports /\ HandleMouseUp
    \/ exports = <<>> /\ pendingImages = <<>> /\ pendingBackground = <<>>
       /\ HandleDownload(FALSE)
    \/ \E i \in 1..MaxExports : \E ok \in BOOLEAN : ExportDecoded(i, ok, FALSE)

SpecExport == Init /\ [][ExportNext]_vars

\* SpecCrop: cropping and the export. An image is uploaded and put in crop mode, a shape
\* is added, the crop handles shown are dragged, and the scene is exported.
CropNext ==
    \/ NoExport /\ pendingImages = <<>> /\ HandleDecoUpload([src |-> 1, ratio |-> <<1, 2>>])
    \/ NoExport /\ ImageLoaded(1, FALSE)
    \/ NoExport /\ AddShape("rectangle", FALSE)
    \/ NoExport /\ StartCropping
    \/ \E id \in ClockValues, cropHandle \in Handles :
           NoExport /\ ~GestureActive /\ HandleMouseDown(id, "crop", cropHandle, 0, 0)
    \/ \E px, py \in PointerCoords : NoExport /\ HandleMouseMove(px, py)
    \/ NoExport /\ HandleMouseUp
    \/ exports = <<>> /\ pendingImages = <<>> /\ ~GestureActive /\ HandleDownload(FALSE)
    \/ \E ok \in BOOLEAN : ExportDecoded(1, ok, FALSE)

SpecCrop == Init /\ [][CropNext]_vars

\* SpecRemoveBg: the background removal. An image and texts, the overlay and the
\* background are edited while a request is in flight or not; the request succeeds or
\* fails.
RemoveBgNext ==
    \/ pendingImages = <<>> /\ HandleDecoUpload([src |-> 1, ratio |-> <<1, 2>>])
    \/ ImageLoaded(1, FALSE)
    \/ AddText(FALSE)
    \/ DeleteSelected
    \/ \E color \in Colors : UpdateColor(color)
    \/ \E percent \in OverlayOpacities : SetOverlayOpacity(percent)
    \/ SelectGradient
    \/ HandleRemoveBackground
    \/ \E ok \in BOOLEAN : RemoveBackgroundDone(ok)

SpecRemoveBg == Init /\ [][RemoveBgNext]_vars

\* SpecPointer: presses, moves and releases of the pointer in any order (a press may
\* come while a gesture is active: a second touch, or a second button of the mouse),
\* on an image, with crop mode.
PointerNext ==
    \/ elements = <<>> /\ pendingImages = <<>> /\ HandleDecoUpload([src |-> 1, ratio |-> <<1, 2>>])
    \/ ImageLoaded(1, FALSE)
    \/ StartCropping
    \/ \E id \in ClockValues, type \in GestureTypes, cropHandle \in Handles :
          HandleMouseDown(id, type, cropHandle, 0, 0)
    \/ HandleMouseMove(PointerStep, PointerStep)
    \/ HandleMouseUp
    \/ HandleCanvasClick

SpecPointer == Init /\ [][PointerNext]_vars

\* SpecRemoveBgLive: the background removal with its outcomes. Images and texts are
\* added and deleted while requests are made; the service and the decoder always
\* answer in the end, so a request in flight eventually gets one of its outcomes.
RemoveBgLiveNext ==
    \/ pendingImages = <<>> /\ HandleDecoUpload([src |-> 1, ratio |-> <<1, 2>>])
    \/ ImageLoaded(1, FALSE)
    \/ AddText(FALSE)
    \/ DeleteSelected
    \/ \E id \in ClockValues : HandleMouseDown(id, "move", "lt", 0, 0)
    \/ HandleMouseUp
    \/ HandleRemoveBackground
    \/ \E ok \in BOOLEAN : RemoveBackgroundDone(ok)
    \/ RemoveBackgroundUndecodable

SpecRemoveBgLive ==
    Init /\ [][RemoveBgLiveNext]_vars /\ WF_vars(RemoveBackgroundOutcome)

\* SpecMove: the pointer-moves of a gesture. A scene of a text, a shape or an image over
\* an image background or not is made first; then come presses on the elements, on
\* their handles and on the background, pointer-moves and releases.
SceneIsBuilt == moves > 0 \/ GestureActive \/ isCropping

MoveNext ==
    \/ ~SceneIsBuilt /\ AddText(FALSE)
    \/ ~SceneIsBuilt /\ AddShape("rectangle", FALSE)
    \/ ~SceneIsBuilt /\ pendingImages = <<>>
       /\ HandleDecoUpload([src |-> 1, ratio |-> <<1, 2>>])
    \/ ~SceneIsBuilt /\ ImageLoaded(1, FALSE)
    \/ ~SceneIsBuilt /\ pendingBackground = <<>> /\ HandleBackgroundUpload(2)
    \/ ~SceneIsBuilt /\ BackgroundLoaded(1)
    \/ ~GestureActive /\ StartCropping
    \/ \E id \in ClockValues \cup {BgId}, type \in GestureTypes, cropHandle \in {"lt", "rb"} :
          ~GestureActive /\ HandleMouseDown(id, type, cropHandle, 0, 0)
    \/ \E p \in PointerCoords : HandleMouseMove(p, p)
    \/ HandleMouseMoveIgnored(PointerStep, PointerStep)
    \/ HandleMouseUp

SpecMove == Init /\ [][MoveNext]_vars

\* SpecGradient: the gradient background and the export. The gradient is selected and
\* its direction chosen, with or without a shape over it and the overlay, and the
\* scene is exported.
GradientNext ==
    \/ SelectGradient
    \/ SelectSolid
    \/ \E direction \in GradientDirections : SetGradientDirection(direction)
    \/ \E percent \in OverlayOpacities : SetOverlayOpacity(percent)
    \/ NoExport /\ AddShape("circle", FALSE)
    \/ HandleCanvasClick
    \/ HandleDownload(FALSE)

SpecGradient == Init /\ [][GradientNext]_vars

----------------------------------------------------------------------------
(* Claims *)

\* C1: in every reachable state each element's stored zIndex equals its (0-based)
\* index in the elements array.
C1_ZIndexEqualsIndex ==
    \A i \in Indices(elements) : elements[i].zIndex = i - 1

\* C2 as stated: moveLayer('up') followed by moveLayer('down') returns the elements
\* array to its original sequence, whatever the position of the selected element.
C2_UpThenDownRestores ==
    history.ops = <<"up", "down">> => elements = history.base

\* the selected id's first holder is not last and the element above it has another id
C2_CanMoveUp ==
    LET base == history.base
        index == FindIndex(base, history.selected)
    IN  /\ index # 0
        /\ index < Len(base)
        /\ base[index + 1].id # history.selected

\* the selected id's first holder is the last element of an array of two or more
C2_IsOnTop ==
    LET base == history.base
    IN  /\ Len(base) >= 2
        /\ FindIndex(base, history.selected) = Len(base)

\* C2 amended: 'up' then 'down' restores the array when the selected element is not
\* the last one (and the element above it has another id); for the last element 'up'
\* changes nothing and 'down' then moves it one place down.
C2_UpThenDownRestoresBelowTop ==
    history.ops = <<"up", "down">> =>
        /\ C2_CanMoveUp => elements = history.base
        /\ C2_IsOnTop => elements = SwapWithNext(history.base, Len(history.base) - 1)

\* C2 witness: a round trip of an element that is below the top
C2_Witness ==
    /\ history.ops = <<"up", "down">>
    /\ C2_CanMoveUp
    /\ elements = history.base

\* the number of entries op in the recorded history
HistoryCount(op) == Cardinality({k \in DOMAIN history.ops : history.ops[k] = op})

\* C3: once every decode of a paste of n >= 1 image items has completed, the model
\* holds n more Image elements than before the paste, and every element that was in
\* it before the paste.
C3_PasteAddsEveryImage ==
    LET n == HistoryCount("paste")
        IsImage(el) == el.type = "image"
    IN  (n >= 1 /\ HistoryCount("load") = n) =>
            /\ Len(elements) = Len(history.base) + n
            /\ Len(SelectSeq(elements, IsImage)) = Len(SelectSeq(history.base, IsImage)) + n
            /\ \A i \in Indices(history.base) :
                   \E j \in Indices(elements) : elements[j] = history.base[i]

\* C4: a step that is not deleteSelected removes no element: every id in the list
\* before the step is in the list after it, and the list is not shorter.
C4_OnlyDeletionRemoves ==
    [][ \/ DeleteSelected
        \/ /\ Len(elements') >= Len(elements)
           /\ \A i \in Indices(elements) :
                  \E j \in Indices(elements') : elements'[j].id = elements[i].id ]_vars

\* C5: in every reachable state no two elements of the list have the same id.
C5_UniqueIds ==
    \A i, j \in Indices(elements) : i # j => elements[i].id # elements[j].id

\* C6: for every Image element, height == width / aspectRatio (a comparison of
\* numbers: NaN is equal to nothing), at creation and after every pointer-move.
C6_AspectLocked ==
    \A i \in Indices(elements) :
        elements[i].type = "image" =>
            /\ IsNum(elements[i].height)
            /\ elements[i].height = NDiv(elements[i].width, elements[i].aspectRatio)

\* a crop percentage in [0, 100)
InCropRange(v) == NLeq(Num(0), v) /\ NLess(v, Num(100))

\* C7: the crop of every element that has one keeps each of top, right, bottom, left
\* in [0, 100), with top + bottom < 100 and left + right < 100 (crops start at 0 and
\* only the pointer-moves of crop gestures change them).
C7_CropWithinBounds ==
    \A i \in Indices(elements) :
        LET crop == elements[i].crop
        IN  crop # NoCrop =>
                /\ InCropRange(crop.top) /\ InCropRange(crop.right)
                /\ InCropRange(crop.bottom) /\ InCropRange(crop.left)
                /\ NLess(NAdd(crop.top, crop.bottom), Num(100))
                /\ NLess(NAdd(crop.left, crop.right), Num(100))

\* C8: no pointer-move of a crop-handle gesture raises an error, whatever the element
\* the crop handles were shown on.
C8_CropMoveNeverThrows ==
    ~(crashed /\ isCroppingDrag # "none")

\* C9: when the image a background-removal request was started for is no longer in
\* the list, the completion of the request leaves the elements list unchanged.
C9_CompletionOnMissingTargetIsNoOp ==
    [][ ( /\ pendingRemoveBg # <<>>
          /\ pendingRemoveBg' = <<>>
          /\ FindIndex(elements, pendingRemoveBg[1].selectedId) = 0 )
        => elements' = elements ]_vars

\* C10: when the background is of the solid variant, its state holds no image, so no
\* pan offset and no scale of an earlier image variant.
C10_SolidHoldsNoImageState ==
    background.type = "solid" => ~background.hasImage

\* a step that adds an element: addText, addShape, or the onload of an image add
C11_IsAdd ==
    \/ \E sameMs \in BOOLEAN : AddText(sameMs) \/ AddShape("rectangle", sameMs)
    \/ \E i \in 1..MaxPending, sameMs \in BOOLEAN : ImageLoaded(i, sameMs)

\* C11: after every add the new element is the last entry of the array, is placed at
\* the centre of the current canvas dimensions, and is the selected element.
C11_NewElementOnTopCentredSelected ==
    [][ C11_IsAdd =>
          LET el == elements'[Len(elements')]
          IN  /\ el.id = selectedId'
              /\ el.x = Half(canvasDimensions'.width)
              /\ el.y = Half(canvasDimensions'.height) ]_vars

\* C12: deleteSelected with an element selected removes that element and no other
\* (the rest unchanged, in the same order), and leaves no selection and crop mode off.
C12_DeleteRemovesExactlySelected ==
    [][ (HasSelectedElement /\ DeleteSelected) =>
          /\ elements' = RemoveAt(elements, FindIndex(elements, selectedId))
          /\ selectedId' = NoneId
          /\ isCropping' = FALSE ]_vars

\* C13: a commit writes into the selected image's src the encoding of a canvas that
\* was drawn from that image's own current raster (never a canvas not yet loaded),
\* and changes nothing else in the elements list.
C13_CommitWritesOwnRaster ==
    [][ (SaveEraserResult /\ HasSelectedElement) =>
          LET i == FindIndex(elements, selectedId)
          IN  /\ eraserCanvas.src = elements[i].src
              /\ elements' = [elements EXCEPT
                                ![i] = [@ EXCEPT !.src = EraserDataURL(eraserCanvas)]] ]_vars

\* the eraser was opened, strokes or loads followed, and it was closed without commit
C14_ClosedWithoutCommit ==
    /\ Len(history.ops) >= 2
    /\ history.ops[1] = "erase"
    /\ history.ops[Len(history.ops)] = "close"

\* C14: after the eraser is closed without commit the elements (so the erased
\* element's src), the background and the selection are those of before activation.
C14_CloseLeavesSceneUnchanged ==
    C14_ClosedWithoutCommit =>
        /\ elements = history.base
        /\ selectedId = history.selected
        /\ background = history.background

\* C14 witness: closed without commit after strokes on the loaded canvas
C14_Witness ==
    /\ C14_ClosedWithoutCommit
    /\ Len(history.ops) = MaxStrokes + 2
    /\ elements = history.base

\* a step of handleEraserDraw: the only one that counts a pointer event on the canvas
C15_IsDraw == isErasing /\ eraserCanvas'.strokes = eraserCanvas.strokes + 1

\* the pixel is farther than the brush radius from the centre of every stamp of the event
C15_Farther(p) ==
    LET centers == Centers(eraserLastPos, eraserLastPos', eraserBrush.size)
    IN  \A i \in 1..Len(centers) :
            NLess(Num(eraserBrush.size * eraserBrush.size), Dist2(Point(p), centers[i]))

\* C15, as stated: the stamps of a pointer event never raise the alpha of a pixel and
\* never change its colour channels, leave every pixel farther than the brush radius as
\* it was, and with hardness 1.0 and opacity 1.0 bring the alpha at the centre to 0.
C15_StampOnlyLowersAlpha ==
    [][ C15_IsDraw =>
          /\ \A p \in Pixels :
                /\ raster'[p].alpha <= raster[p].alpha
                /\ raster'[p].color = raster[p].color
                /\ C15_Farther(p) => raster'[p] = raster[p]
          /\ (eraserBrush.hardness = 100 /\ eraserBrush.opacity = 100
              /\ eraserLastPos' \in Pixels) => raster'[eraserLastPos'].alpha = 0 ]_vars

\* C15, amended: the same without the colour channels of the pixels the stamps cover:
\* the alpha never rises, a pixel farther than the brush radius keeps its alpha and its
\* colour, and with hardness 1.0 and opacity 1.0 the alpha at the centre becomes 0.
C15_StampLowersAlphaWithinRadius ==
    [][ C15_IsDraw =>
          /\ \A p \in Pixels :
                /\ raster'[p].alpha <= raster[p].alpha
                /\ C15_Farther(p) => raster'[p] = raster[p]
          /\ (eraserBrush.hardness = 100 /\ eraserBrush.opacity = 100
              /\ eraserLastPos' \in Pixels) => raster'[eraserLastPos'].alpha = 0 ]_vars

\* a stamp of radius 20, hardness 1.0 and opacity 1.0 at (50, 50) of an opaque image:
\* the alpha is 0 at (50, 50) and 255 at (95, 95)
C15_Witness ==
    /\ isErasing
    /\ eraserBrush = DefaultBrush
    /\ eraserCanvas.strokes = 1
    /\ eraserLastPos = <<50, 50>>
    /\ raster[<<50, 50>>].alpha = 0
    /\ raster[<<95, 95>>] = OpaqueRaster[<<95, 95>>]

\* two files were exported from the same background, overlay, elements and canvas
\* size, with the same decode outcomes
C16_SameScene(a, b) ==
    /\ a.background = b.background
    /\ a.overlay = b.overlay
    /\ a.elements = b.elements
    /\ a.width = b.width
    /\ a.height = b.height
    /\ a.outcomes = b.outcomes

C17_Awaits(d) ==
    (IF d.background.type = "image" /\ d.background.hasImage THEN <<0>> ELSE <<>>)
    \o SelectSeq([k \in Indices(d.elements) |-> k], LAMBDA k : d.elements[k].type = "image")

\* the item's decode failed in this export
C17_Failed(d, item) ==
    \E n \in Indices(C17_Awaits(d)) : C17_Awaits(d)[n] = item /\ ~d.outcomes[n]

\* the draw operations of an item
C17_OpsOf(d, item) == SelectSeq(d.ops, LAMBDA op : op.item = item)

\* C17: in every exported file, an image whose decode failed (element or background) is
\* not drawn; every other element is drawn, under its own placement alone, and the
\* elements are drawn in the order of the array; the drawing state is back to the
\* initial one at the end; and an export that has the outcome of its last decode has
\* produced its file (an export in flight is awaiting a decode).
C17_FailedDecodeSkipsOnlyThatItem ==
    /\ \A i \in Indices(downloads) :
          LET d == downloads[i]
          IN  /\ Len(d.outcomes) = Len(C17_Awaits(d))
              /\ \A k \in Indices(d.elements) :
                    IF C17_Failed(d, k) THEN C17_OpsOf(d, k) = <<>>
                    ELSE /\ C17_OpsOf(d, k) # <<>>
                         /\ \A n \in Indices(C17_OpsOf(d, k)) :
                               C17_OpsOf(d, k)[n].transform = <<Placement(d.elements[k])>>
              /\ C17_Failed(d, 0) =>
                    \A n \in Indices(d.ops) : ~(d.ops[n].item = 0 /\ d.ops[n].op = "drawImage")
              /\ \A m, n \in Indices(d.ops) :
                    (m < n /\ d.ops[m].item > 0) => d.ops[m].item <= d.ops[n].item
              /\ d.ctx = NewContext
    /\ \A i \in Indices(exports) :
          LET e == exports[i]
          IN  /\ ~Finished(e)
              /\ e.next = 0 \/ e.elements[e.next].type = "image"

\* a file of a scene with an image background and an image element below another
\* element, whose two decodes failed
C17_Witness ==
    \E i \in Indices(downloads) :
        LET d == downloads[i]
        IN  /\ Len(d.elements) = 2
            /\ d.elements[1].type = "image"
            /\ d.elements[2].type # "image"
            /\ d.outcomes = <<FALSE, FALSE>>
            /\ C17_OpsOf(d, 2) # <<>>

\* C18: the completion of a failed background-removal request changes nothing in the
\* scene (elements, background, overlay and selection are as they were, with the edits
\* made while the request was in flight) and shows an alert.
C18_FailureLeavesSceneAndAlerts ==
    [][ RemoveBackgroundDone(FALSE) =>
          /\ elements' = elements
          /\ background' = background
          /\ overlay' = overlay
          /\ selectedId' = selectedId
          /\ alerts' = alerts + 1 ]_vars

\* a request has failed after the elements it started from were edited
C18_Witness ==
    /\ alerts = 1
    /\ pendingRemoveBg = <<>>
    /\ ~isProcessingRemoveBg
    /\ Len(elements) = 2
    /\ elements[1].type = "image"
    /\ elements[1].src \in ImageSources

\* C20: in crop mode on a selected element, a press that starts a drag on another
\* element turns crop mode off, selects that element and starts the drag.
C20_PressOnOtherElementCancelsCropAndDrags ==
    [][ \A id \in ClockValues :
          (isCropping /\ HasSelectedElement /\ id # selectedId
           /\ HandleMouseDown(id, "move", "lt", 0, 0))
          => (~isCropping' /\ selectedId' = id /\ isDragging') ]_vars

\* the number of gesture flags that are set
C19_FlagsSet ==
    (IF isDragging THEN 1 ELSE 0) + (IF isResizing THEN 1 ELSE 0)
    + (IF isRotating THEN 1 ELSE 0) + (IF isCroppingDrag # "none" THEN 1 ELSE 0)

\* C19: in every reachable state at most one of the dragging, resizing, rotating and
\* crop-handle-dragging flags is set.
C19_AtMostOneGesture == C19_FlagsSet <= 1

\* the awaits of an export below the item k
C21_AwaitsBelow(e, k) ==
    {n \in Indices(C17_Awaits(e)) : C17_Awaits(e)[n] < k}

\* C21 (as stated): while an export awaits the decode of an image, no element has been
\* drawn yet: every image load is over before the first element is drawn.
C21_LoadsBeforeFirstElementDraw ==
    \A i \in Indices(exports) :
        \A n \in Indices(exports[i].ops) : exports[i].ops[n].item < 1

\* C21 (amended): the images of an export are loaded one at a time, each when render()
\* reaches its item: while an export awaits the decode of item k (0 is the background),
\* every decode below k has its outcome and no other has, every element below k that
\* is not an image has been drawn, and nothing from k on has been drawn.
C21_LoadsAreAwaitedInTurn ==
    \A i \in Indices(exports) :
        LET e == exports[i]
        IN  /\ Len(e.outcomes) = Cardinality(C21_AwaitsBelow(e, e.next))
            /\ \A n \in Indices(e.ops) :
                  \/ e.ops[n].item < e.next
                  \/ e.next = 0 /\ e.ops[n].item = 0 /\ e.ops[n].op = "fillRect"
            /\ \A k \in 1..(e.next - 1) :
                  e.elements[k].type # "image" =>
                      \E n \in Indices(e.ops) : e.ops[n].item = k

\* an export awaits the decode of its second element after it has decoded and drawn the
\* first one
C21_Witness ==
    \E i \in Indices(exports) :
        LET e == exports[i]
        IN  /\ e.next = 2
            /\ e.elements[1].type = "image"
            /\ e.outcomes # <<>>
            /\ e.outcomes[Len(e.outcomes)]
            /\ \E n \in Indices(e.ops) : e.ops[n].item = 1 /\ e.ops[n].op = "drawImage"

\* C22: in every exported file, every drawn image or shape whose crop is not zero was
\* drawn under one clip, the rectangle the live view clips it to.
C22_ExportClipsAsLiveView ==
    \A i \in Indices(downloads) :
        LET d == downloads[i]
        IN  \A n \in Indices(d.ops) :
                LET k == d.ops[n].item
                IN  (/\ k > 0
                     /\ d.elements[k].type \in {"image", "shape"}
                     /\ d.elements[k].crop # ZeroCrop)
                    => d.ops[n].clip = <<LiveClip(d.elements[k])>>

\* C23: whenever a background-removal request is being processed, the processing flag
\* is cleared later on, whatever the outcome of the request.
C23_RequestEventuallyCompletes ==
    isProcessingRemoveBg ~> ~isProcessingRemoveBg

\* the elements and the background after a pointer-move to (px, py) in this gesture,
\* from the elements els and the background bg
C24_Moved(els, bg, px, py) ==
    LET dx == Num(px - dragStart.x)
        dy == Num(py - dragStart.y)
    IN  IF selectedId = BgId /\ background.type = "image" /\ background.hasImage
        THEN [elements |-> els,
              background |-> MoveBackground(bg, initialElementState, isDragging,
                                            isResizing, dx, dy)]
        ELSE [elements |-> MapMove(els, selectedId, initialElementState, isCroppingDrag,
                                   isDragging, isResizing, isRotating, dx, dy),
              background |-> bg]

\* a pointer-move of this gesture reaches its updater and returns from it
C24_CanMove ==
    /\ ~crashed
    /\ GestureActive
    /\ selectedId # NoneId
    /\ IF selectedId = BgId /\ background.type = "image" /\ background.hasImage
       THEN ~((isDragging \/ isResizing) /\ initialElementState.kind = "null")
       ELSE ~(HasSelectedElement /\ MoveThrows(initialElementState, isCroppingDrag))

\* the pointer positions of the two moves
C24_Positions == {<<0, 0>>, <<PointerStep, PointerStep>>,
                  <<7 - PointerStep, PointerStep \div 3>>}

\* C24: in every state of a gesture, a pointer-move to a position p gives the same
\* elements and background whether or not a pointer-move to another position q came
\* before it: the result depends on the snapshot and on the delta of p alone.
C24_MoveDependsOnSnapshotAndDelta ==
    C24_CanMove =>
        \A p, q \in C24_Positions :
            LET between == C24_Moved(elements, background, q[1], q[2])
            IN  C24_Moved(between.elements, between.background, p[1], p[2])
                    = C24_Moved(elements, background, p[1], p[2])

\* a crop gesture in which an earlier pointer-move has already changed the crop of the
\* target away from the crop of the snapshot
C24_Witness ==
    /\ C24_CanMove
    /\ HasSelectedElement
    /\ isCroppingDrag = "lt"
    /\ moves > 0
    /\ SelectedElement.crop # initialElementState.crop

\* a step that ends a gesture: a gesture flag that was set is cleared, or the snapshot
\* is discarded
C25_IsRelease ==
    /\ GestureActive
    /\ \/ isDragging /\ ~isDragging'
       \/ isResizing /\ ~isResizing'
       \/ isRotating /\ ~isRotating'
       \/ isCroppingDrag # "none" /\ isCroppingDrag' = "none"
       \/ initialElementState # NullState /\ initialElementState' = NullState

\* a pointer-move received while no gesture flag is set
C25_IsIdleMove == ~GestureActive /\ moves' = moves + 1

\* C25: a pointer-up can be taken in every state of a gesture; the step that ends a
\* gesture clears every gesture flag and the snapshot and leaves the elements, the
\* background and the selection as they were; a pointer-move received while no flag is
\* set changes neither of these nor the flags, the snapshot and crop mode.
C25_ReleaseCommitsAndIdleMoveIsNoOp ==
    [][/\ (GestureActive /\ ~crashed) => ENABLED HandleMouseUp
       /\ C25_IsRelease =>
              /\ ~GestureActive'
              /\ initialElementState' = NullState
              /\ UNCHANGED <<elements, background, selectedId>>
       /\ C25_IsIdleMove =>
              UNCHANGED <<elements, background, selectedId, isCropping, isDragging,
                          isResizing, isRotating, isCroppingDrag, initialElementState>>
      ]_vars

\* after the release of a crop gesture with two pointer-moves: no flag is set, the
\* snapshot is discarded and the image keeps the crop of the last move
C25_Witness ==
    /\ ~GestureActive
    /\ initialElementState = NullState
    /\ moves = MaxMoves
    /\ HasSelectedElement
    /\ SelectedElement.type = "image"
    /\ SelectedElement.crop # ZeroCrop

\* a step in which handleMouseMove takes the resize branch for the selected element
C26_IsResizeMove ==
    /\ moves' = moves + 1
    /\ ~crashed'
    /\ HasSelectedElement
    /\ isResizing
    /\ ~isDragging
    /\ isCroppingDrag = "none"

\* the element the claim states for a resize by d from the snapshot
C26_Resized(el, snap, d) ==
    IF el.type = "text"
    THEN [el EXCEPT !.fontSize = NMax(Num(10), NAdd(snap.fontSize, NMul(d, <<1, 2>>)))]
    ELSE IF el.type = "image"
    THEN [el EXCEPT !.width = NMax(Num(20), NAdd(snap.width, d)),
                    !.height = NDiv(NMax(Num(20), NAdd(snap.width, d)), snap.aspectRatio)]
    ELSE [el EXCEPT !.width = NMax(Num(20), NAdd(snap.width, d)),
                    !.height = NMax(Num(20), NAdd(snap.height, d))]

\* the sizes the claim states after a resize
C26_AboveMinimum(el) ==
    /\ el.type = "text" => NLeq(Num(10), el.fontSize)
    /\ el.type \in {"image", "shape"} => NLeq(Num(20), el.width)
    /\ el.type = "shape" => NLeq(Num(20), el.height)

\* C26: a pointer-move of a resize with drag delta d sets the selected element to what
\* the formulas give from the snapshot (text: fontSize = max(10, fontSize0 + d/2);
\* image: width = max(20, width0 + d), height = width / aspectRatio; shape: width and
\* height = max(20, . + d)), with every other attribute and every other element as
\* before, and leaves fontSize >= 10, width >= 20 and the height of a shape >= 20.
C26_ResizeFollowsFormulas ==
    [][C26_IsResizeMove =>
          LET i == FindIndex(elements, selectedId)
          IN  /\ \E p \in PointerCoords :
                    elements' = [elements EXCEPT ![i] =
                                    C26_Resized(elements[i], initialElementState,
                                                Num(p - dragStart.x))]
              /\ C26_AboveMinimum(elements'[i])
      ]_vars

\* the place of an item in the order of the layers: the background, the overlay, then
\* the elements
C27_Layer(item) == IF item = 0 THEN 0 ELSE IF item = -1 THEN 1 ELSE item + 1

\* the file's operations begin with the background, are in the order of the layers, and
\* hold the overlay once if its opacity is above 0 and not at all otherwise
C27_BackgroundOverlayThenElements(d) ==
    /\ d.ops # <<>>
    /\ d.ops[1].item = 0
    /\ \A m, n \in Indices(d.ops) :
          m < n => C27_Layer(d.ops[m].item) <= C27_Layer(d.ops[n].item)
    /\ Len(C17_OpsOf(d, -1)) = IF d.overlay.opacity > 0 THEN 1 ELSE 0

\* C27 (as stated): every exported file draws the background first, then the overlay
\* if and only if its opacity is above 0, then every element exactly once in the order
\* of the array, whatever the outcomes of the decodes.
C27_EveryElementDrawnOnceInOrder ==
    \A i \in Indices(downloads) :
        LET d == downloads[i]
        IN  /\ C27_BackgroundOverlayThenElements(d)
            /\ \A k \in Indices(d.elements) : Len(C17_OpsOf(d, k)) = 1

\* C27 (amended): every exported file draws the background first, then the overlay if
\* and only if its opacity is above 0, then, in the order of the array, every element
\* exactly once except the images whose decode failed, which are not drawn.
C27_EveryDecodedElementDrawnOnceInOrder ==
    \A i \in Indices(downloads) :
        LET d == downloads[i]
        IN  /\ C27_BackgroundOverlayThenElements(d)
            /\ \A k \in Indices(d.elements) :
                  Len(C17_OpsOf(d, k)) = IF C17_Failed(d, k) THEN 0 ELSE 1

\* a file of an image background under a visible overlay and two elements, an image
\* whose decode took place and succeeded and another element above it
C27_Witness ==
    \E i \in Indices(downloads) :
        LET d == downloads[i]
        IN  /\ d.background.type = "image"
            /\ d.overlay.opacity > 0
            /\ Len(d.elements) = 2
            /\ d.elements[1].type = "image"
            /\ d.outcomes = <<TRUE, TRUE>>
            /\ Len(d.ops) = 5

\* C28: in every exported file of a gradient background, the gradient drawn runs
\* between the same corners of the canvas, in the same orientation, as the gradient
\* the live view shows for the direction selected.
C28_ExportGradientAsLiveView ==
    \A i \in Indices(downloads) :
        LET d == downloads[i]
        IN  (d.background.type = "gradient" /\ d.background.hasGradient) =>
                /\ d.ops # <<>>
                /\ d.ops[1].item = 0
                /\ d.ops[1].paint.gradient = LiveGradient(d.background.direction)

\* C29: whenever crop mode is on, the selected id is the id of an image element of the
\* elements array.
C29_CropModeOnlyOnSelectedImage ==
    isCropping =>
        \E i \in Indices(elements) :
            elements[i].id = selectedId /\ elements[i].type = "image"

\* C30: in every state the selected id is none, the background's, or the id of an
\* element of the elements array.
C30_SelectionNeverDangles ==
    \/ selectedId \in {NoneId, BgId}
    \/ \E i \in Indices(elements) : elements[i].id = selectedId

====
